---------------------------- MODULE Spec2Model ----------------------------
(***************************************************************************)
(* A model of the rocket-amf native extension: the AMF0/AMF3 serializer    *)
(* (src/ext/serializer.c) and deserializer (src/ext/deserializer.c).       *)
(*                                                                         *)
(* Bytes are the integers 0..255, strings and streams are sequences of     *)
(* bytes.  Ruby objects with identity live in a heap (a sequence of        *)
(* records); a value is either an immediate or a reference into the heap.  *)
(***************************************************************************)
EXTENDS Integers, Sequences, FiniteSets, TLC

VARIABLES
    ser,        \* the AMF_SERIALIZER struct, @_serialize_opts, the exception raised
    ser_ret,    \* what the last serialize call returned (nil or the stream)
    des,        \* the AMF_DESERIALIZER struct of the deserializer the caller owns
    amf3_des,   \* the AMF_DESERIALIZER struct des0_read_amf3 allocates
    heap,       \* the Ruby objects the deserializer has created
    frames,     \* the C call stack of the deserializer (innermost last)
    ret,        \* the value the innermost finished call returned
    err,        \* the exception a deserializer call raised ("none" when none)
    mem,        \* observation of memory accesses: buffer and cache indices used
    num,        \* input of the integer codec: the int given to ser_write_int
    host,       \* input of the serializer: a Ruby object graph (root and heap)
    src,        \* input of the deserializer: the source string
    call        \* the deserializer entry point that was called ("none": none yet)

vars == << ser, ser_ret, des, amf3_des, heap, frames, ret, err,
           mem, num, host, src, call >>

serVars == << ser, ser_ret >>
desVars == << des, amf3_des, heap, frames, ret, err, mem, call >>

---------------------------------------------------------------------------
(* Bounds of the model *)

\* length of the arbitrary byte strings fed to the deserializers
MaxFuzzLen == 3

\* number of integers taken around each boundary of the U29 encoding
U29Spread == 2

\* length of the arrays given to the serializer
MaxItems == 3

\* length of the arrays of records given to a serializer session
MaxRecords == 2

\* number of serialize calls made on one serializer
MaxCalls == 2

\* length of the keys given to camelcase_str
MaxKeyLen == 4

\* number of ser_write calls made on one serializer
MaxWrites == 5

\* length of the byte strings given to des_read_uint32 and des_read_int
MaxReadLen == 5

---------------------------------------------------------------------------
(* Helpers: a local binding, and C's bit operations on ints *)

\* F applied to the value of x, which F's body can then use many times
Bind(x, F(_)) == F(x)

RECURSIVE Pow2(_)
Pow2(k) == IF k = 0 THEN 1 ELSE 2 * Pow2(k - 1)

\* x >> k for x >= 0
Shr(x, k) == x \div Pow2(k)

\* x << k (no overflow at the widths used here)
Shl(x, k) == x * Pow2(k)

\* x & (2^k - 1) for any int x in two's complement
LowBits(x, k) == x % Pow2(k)

\* whether bit k of x is set
BitSet(x, k) == (x \div Pow2(k)) % 2 = 1

\* arithmetic x >> k of a signed int: floor division
Sar(x, k) == IF x >= 0 THEN x \div Pow2(k) ELSE -((-x + Pow2(k) - 1) \div Pow2(k))

Max(a, b) == IF a >= b THEN a ELSE b
Min(a, b) == IF a <= b THEN a ELSE b

Byte == 0 .. 255

RECURSIVE SeqOfLen(_, _)
SeqOfLen(S, n) ==
    IF n = 0 THEN { << >> }
    ELSE { Append(s, x) : s \in SeqOfLen(S, n - 1), x \in S }

SeqUpTo(S, n) == UNION { SeqOfLen(S, k) : k \in 0 .. n }

Prefixes(s) == { SubSeq(s, 1, k) : k \in 0 .. Len(s) }
StrictPrefixes(s) == { SubSeq(s, 1, k) : k \in 0 .. Len(s) - 1 }

IsPrefix(s, t) == Len(s) <= Len(t) /\ SubSeq(t, 1, Len(s)) = s

Last(s) == s[Len(s)]
Front(s) == SubSeq(s, 1, Len(s) - 1)


---------------------------------------------------------------------------
(* Constants of constants.h, scaled where they size a buffer *)

INITIAL_STREAM_LENGTH == 8
MAX_STREAM_LENGTH == 64
MAX_INTEGER == 268435455
MIN_INTEGER == -268435456

AMF0_NUMBER_MARKER == 0
AMF0_BOOLEAN_MARKER == 1
AMF0_STRING_MARKER == 2
AMF0_OBJECT_MARKER == 3
AMF0_NULL_MARKER == 5
AMF0_UNDEFINED_MARKER == 6
AMF0_REFERENCE_MARKER == 7
AMF0_HASH_MARKER == 8
AMF0_OBJECT_END_MARKER == 9
AMF0_STRICT_ARRAY_MARKER == 10
AMF0_DATE_MARKER == 11
AMF0_LONG_STRING_MARKER == 12
AMF0_UNSUPPORTED_MARKER == 13
AMF0_XML_MARKER == 15
AMF0_TYPED_OBJECT_MARKER == 16
AMF0_AMF3_MARKER == 17

AMF3_UNDEFINED_MARKER == 0
AMF3_NULL_MARKER == 1
AMF3_FALSE_MARKER == 2
AMF3_TRUE_MARKER == 3
AMF3_INTEGER_MARKER == 4
AMF3_DOUBLE_MARKER == 5
AMF3_STRING_MARKER == 6
AMF3_XML_DOC_MARKER == 7
AMF3_DATE_MARKER == 8
AMF3_ARRAY_MARKER == 9
AMF3_OBJECT_MARKER == 10
AMF3_XML_MARKER == 11
AMF3_BYTE_ARRAY_MARKER == 12
AMF3_DICT_MARKER == 17

AMF3_EMPTY_STRING == 1
AMF3_CLOSE_DYNAMIC_ARRAY == 1
AMF3_CLOSE_DYNAMIC_OBJECT == 1

---------------------------------------------------------------------------
(* Values *)

VNil == [t |-> "nil"]
VBool(b) == [t |-> "bool", b |-> b]
VInt(n) == [t |-> "int", n |-> n]
VFloat(cval) == [t |-> "float", d |-> cval]
VStr(s) == [t |-> "str", s |-> s]
VSym(s) == [t |-> "sym", s |-> s]
VRef(id) == [t |-> "ref", id |-> id]
\* what a read outside a table yields when the process survives it
Garbage == [t |-> "garbage"]

\* A Ruby object with identity.  k is "array", "hash", "object", "time" or
\* "bytes"; cls the class name (objects), items the elements (arrays), props
\* the ordered key/value pairs (hashes, objects), data the raw bytes (byte
\* arrays: the StringIO's string; times: the double the time was built from).
Obj(k, cls, items, props, data) ==
    [k |-> k, cls |-> cls, items |-> items, props |-> props, data |-> data]

\* rb_hash_aset on an insertion-ordered hash
RECURSIVE HashIndex(_, _, _)
HashIndex(props, key, i) ==
    IF i > Len(props) THEN 0
    ELSE IF props[i][1] = key THEN i ELSE HashIndex(props, key, i + 1)

rb_hash_aset(props, key, val) ==
    LET i == HashIndex(props, key, 1)
    IN  IF i = 0 THEN Append(props, << key, val >>)
        ELSE [props EXCEPT ![i] = << key, val >>]

\* The C string at the start of a byte sequence: the bytes before the first NUL
RECURSIVE CStr(_)
CStr(s) == IF s = << >> \/ Head(s) = 0 THEN << >> ELSE << Head(s) >> \o CStr(Tail(s))

---------------------------------------------------------------------------
(* The serializer: stream writes (serializer.c:82-156) *)

\* ser3_alloc: the struct after construction.  stream holds the
\* len bytes written, size is the recorded capacity, alloc the capacity that
\* was really allocated, opts the instance variable @_serialize_opts, ovf
\* whether a write went outside an allocation, ub what such a write does in
\* this run ("crash" or "garbage") and err the exception that ended the call
\* in progress; tmp is a local of the function running.
ser_alloc ==
    [ stream |-> << >>, size |-> INITIAL_STREAM_LENGTH,
      alloc |-> INITIAL_STREAM_LENGTH, depth |-> 0,
      str_cache |-> << >>, str_index |-> 0,
      trait_cache |-> << >>, trait_index |-> 0,
      obj_cache |-> << >>, obj_index |-> 0,
      opts |-> VNil, tmp |-> VNil, ovf |-> FALSE, ub |-> "crash", err |-> "none",
      klass |-> "AMF3Serializer" ]

\* ser0_alloc: the same struct with the obj_cache alone; klass is the class
\* Data_Wrap_Struct wraps it in
ser0_alloc == [ser_alloc EXCEPT !.klass = "Serializer"]

ser_raise(s, e) == IF s.err # "none" THEN s ELSE [s EXCEPT !.err = e]

\* while(needed > ser->size) ser->size *= 2
RECURSIVE ser_grow(_, _)
ser_grow(size, needed) == IF needed > size THEN ser_grow(size * 2, needed) ELSE size

ser_write(s, str) ==
    IF s.err # "none" THEN s
    ELSE
      LET needed == Len(s.stream) + Len(str) + 1
          size   == IF needed > s.size THEN ser_grow(s.size, needed) ELSE s.size
      IN  IF needed > s.size /\ size > MAX_STREAM_LENGTH
          THEN [s EXCEPT !.size = size, !.err = "RangeError"]
          ELSE LET alloc == IF needed > s.size THEN size ELSE s.alloc
               IN  [s EXCEPT !.size = size, !.alloc = alloc,
                             !.stream = s.stream \o str,
                             !.ovf = s.ovf \/ needed > alloc]

ser_write_byte(s, byte) == ser_write(s, << byte >>)

ser_write_int_short(s, n) ==
    LET m == LowBits(n, 29)
    IN  IF m < 128 THEN ser_write(s, << m >>)
        ELSE IF m < 32768
        THEN ser_write(s, << LowBits(Shr(m, 7), 7) + 128, LowBits(m, 7) >>)
        ELSE IF m < 2097152
        THEN ser_write(s, << LowBits(Shr(m, 14), 7) + 128,
                             LowBits(Shr(m, 7), 7) + 128, LowBits(m, 7) >>)
        ELSE ser_write(s, << LowBits(Shr(m, 22), 7) + 128,
                             LowBits(Shr(m, 15), 7) + 128,
                             LowBits(Shr(m, 8), 7) + 128, LowBits(m, 8) >>)

ser_write_int(s, n) ==
    LET m == LowBits(n, 29)
    IN  IF m < 128 THEN ser_write(s, << m >>)
        ELSE IF m < 16384
        THEN ser_write(s, << LowBits(Shr(m, 7), 7) + 128, LowBits(m, 7) >>)
        ELSE IF m < 2097152
        THEN ser_write(s, << LowBits(Shr(m, 14), 7) + 128,
                             LowBits(Shr(m, 7), 7) + 128, LowBits(m, 7) >>)
        ELSE IF m < 1073741824
        THEN ser_write(s, << LowBits(Shr(m, 22), 7) + 128,
                             LowBits(Shr(m, 15), 7) + 128,
                             LowBits(Shr(m, 8), 7) + 128, LowBits(m, 8) >>)
        ELSE ser_raise(s, "RangeError")

ser_write_uint16(s, n) ==
    IF n > 65535 \/ n < 0 THEN ser_raise(s, "RangeError")
    ELSE ser_write(s, << LowBits(Shr(n, 8), 8), LowBits(n, 8) >>)

\* The upper limit 0xffffffff is beyond every length of the model.
ser_write_uint32(s, n) ==
    IF n < 0 THEN ser_raise(s, "RangeError")
    ELSE ser_write(s, << LowBits(Shr(n, 24), 8), LowBits(Shr(n, 16), 8),
                         LowBits(Shr(n, 8), 8), LowBits(n, 8) >>)

\* A double is held as the 8 bytes of its object representation (cval[0..7],
\* little-endian build); the stream carries them in network order.
Reverse8(b) == << b[8], b[7], b[6], b[5], b[4], b[3], b[2], b[1] >>

ser_write_double(s, cval) == ser_write(s, Reverse8(cval))


---------------------------------------------------------------------------
(* The AMF3 serializer (serializer.c:52-72, 483-860).  The object graph to
   write is a root value and a heap h of Ruby objects. *)

\* st_lookup on a table of << key, index >> entries: the index, or -1
RECURSIVE st_lookup(_, _)
st_lookup(tab, key) ==
    IF tab = << >> THEN -1
    ELSE IF Head(tab)[1] = key THEN Head(tab)[2] ELSE st_lookup(Tail(tab), key)

\* (double)tmp_num for a long: the object representation of the double
RECURSIVE Log2(_)
Log2(n) == IF n < 2 THEN 0 ELSE 1 + Log2(n \div 2)

DoubleOfInt(n) ==
    IF n = 0 THEN << 0, 0, 0, 0, 0, 0, 0, 0 >>
    ELSE LET a == IF n < 0 THEN -n ELSE n
             e == Log2(a)
             biased == 1023 + e
             f == (a - Pow2(e)) * Pow2(30 - e)
         IN  Reverse8(<< (IF n < 0 THEN 128 ELSE 0) + biased \div 16,
                         (biased % 16) * 16 + f \div Pow2(26),
                         (f \div Pow2(18)) % 256, (f \div Pow2(10)) % 256,
                         (f \div 4) % 256, (f % 4) * 64, 0, 0 >>)

\* camelcase_str: the characters of the C string without the underscores,
\* the character after an underscore through toupper
RECURSIVE camelcase_chars(_, _)
camelcase_chars(s, up) ==
    IF s = << >> THEN << >>
    ELSE IF Head(s) = 95 THEN camelcase_chars(Tail(s), TRUE)
    ELSE << IF up /\ Head(s) >= 97 /\ Head(s) <= 122 THEN Head(s) - 32 ELSE Head(s) >>
             \o camelcase_chars(Tail(s), FALSE)

\* char camel_str[sizeof(snake_str)]: the result is built in 8 bytes
CamelBufferSize == 8

\* key = camelcase_str(key) in ser3_hash_iter / ser0_hash_iter: the key is
\* left in tmp; a result longer than the buffer is written outside it
camelcase_str(s, key) ==
    IF s.err # "none" THEN s
    ELSE IF key.t # "str" THEN ser_raise(s, "SIGSEGV")
    ELSE IF Len(camelcase_chars(CStr(key.s), FALSE)) + 1 > CamelBufferSize
    THEN IF s.ub = "crash" THEN ser_raise([s EXCEPT !.ovf = TRUE], "SIGSEGV")
         ELSE [s EXCEPT !.ovf = TRUE,
                        !.tmp = VStr(camelcase_chars(CStr(key.s), FALSE))]
    ELSE [s EXCEPT !.tmp = VStr(camelcase_chars(CStr(key.s), FALSE))]

\* the object-reference prologue of the ser3_write_* functions: whether obj
\* is in the object cache, and its entry into it
ser_obj_cached(s, id) == st_lookup(s.obj_cache, id) >= 0

\* st_add_direct without the ser->obj_index++
ser_obj_cache_add_same(s, id) ==
    IF s.err # "none" THEN s
    ELSE [s EXCEPT !.obj_cache = Append(@, << id, s.obj_index >>)]

ser_obj_cache_add(s, id) ==
    IF s.err # "none" THEN s
    ELSE [s EXCEPT !.obj_cache = Append(@, << id, s.obj_index >>),
                   !.obj_index = @ + 1]

\* ser3_write_utf8vr; the string cache is keyed by C strings
ser3_write_utf8vr(s, obj) ==
    IF s.err # "none" THEN s
    ELSE IF obj.t \notin { "str", "sym", "nil" } THEN ser_raise(s, "ArgumentError")
    ELSE Bind(IF obj.t = "str" THEN obj.s
              ELSE IF obj.t = "sym" THEN CStr(obj.s) ELSE << >>, LAMBDA str :
             IF Len(str) = 0 THEN ser_write_byte(s, AMF3_EMPTY_STRING)
             ELSE IF st_lookup(s.str_cache, CStr(str)) >= 0
             THEN ser_write_int(s, Shl(st_lookup(s.str_cache, CStr(str)), 1))
             ELSE ser_write(
                      ser_write_int(
                          [s EXCEPT !.str_cache = Append(@, << CStr(str), s.str_index >>),
                                    !.str_index = @ + 1],
                          Shl(Len(str), 1) + 1),
                      str))

\* the class mapper on the way out (RocketAMF::ClassMapper, Ruby code
\* outside src/): a Hash and an object of an unmapped class have no class
\* name; the properties are handed over under string keys
get_as_class_name(o) ==
    IF o.k = "object" /\ o.cls # << >> THEN VStr(o.cls) ELSE VNil

props_for_serialization(o) ==
    [i \in 1 .. Len(o.props) |-> << VStr(o.props[i][1].s), o.props[i][2] >>]

rb_hash_aref(props, key) ==
    IF HashIndex(props, key, 1) = 0 THEN VNil
    ELSE props[HashIndex(props, key, 1)][2]

\* opts is nil or a hash; rb_hash_aref(opts, :translate_case) == Qtrue
SerializeOpts(tc) == [t |-> "opts", translate_case |-> tc]
translate_case(opts) == opts # VNil /\ opts.translate_case

\* x / y of C for y > 0: the quotient truncated toward zero
TruncDiv(x, y) == IF x >= 0 THEN x \div y ELSE -((-x) \div y)

RECURSIVE ser3_serialize(_, _, _, _)
RECURSIVE ser3_write_array_items(_, _, _, _)
RECURSIVE ser3_write_members(_, _, _)
RECURSIVE ser3_write_sealed(_, _, _, _, _)
RECURSIVE ser3_write_dynamic(_, _, _, _, _, _)

\* for(i = 0; i < len; i++) ser3_serialize(1, &RARRAY_PTR(ary)[i], self);
ser3_write_array_items(s, h, items, i) ==
    IF s.err # "none" \/ i > Len(items) THEN s
    ELSE ser3_write_array_items(ser3_serialize(s, h, items[i], VNil), h, items, i + 1)

ser3_write_array(s, h, ary) ==
    Bind(ser_write_byte(s, AMF3_ARRAY_MARKER), LAMBDA a :
        IF ser_obj_cached(a, ary.id)
        THEN ser_write_int(a, Shl(st_lookup(a.obj_cache, ary.id), 1))
        ELSE ser3_write_array_items(
                 ser_write_byte(
                     ser_write_int(ser_obj_cache_add(a, ary.id),
                                   Shl(Len(h[ary.id].items), 1) + 1),
                     AMF3_CLOSE_DYNAMIC_ARRAY),
                 h, h[ary.id].items, 1))

\* extra holds the keys of skipped_members
ser3_hash_iter(s, h, key, val, extra, tc) ==
    IF s.err # "none" THEN s
    ELSE IF \E j \in 1 .. Len(extra) : extra[j] = key THEN s
    ELSE Bind(IF tc THEN camelcase_str(s, key) ELSE [s EXCEPT !.tmp = key], LAMBDA k :
             ser3_serialize(ser3_write_utf8vr(k, k.tmp), h, val, VNil))

\* rb_hash_foreach(props, ser3_hash_iter, &args) from entry i on
ser3_write_dynamic(s, h, props, extra, tc, i) ==
    IF s.err # "none" \/ i > Len(props) THEN s
    ELSE ser3_write_dynamic(
             ser3_hash_iter(s, h, props[i][1], props[i][2], extra, tc),
             h, props, extra, tc, i + 1)

\* the loop over the sealed members from member i on
ser3_write_sealed(s, h, props, members, i) ==
    IF s.err # "none" \/ i > Len(members) THEN s
    ELSE ser3_write_sealed(
             ser3_serialize(s, h, rb_hash_aref(props, members[i]), VNil),
             h, props, members, i + 1)

ser3_write_members(s, members, i) ==
    IF s.err # "none" \/ i > Len(members) THEN s
    ELSE ser3_write_members(ser3_write_utf8vr(s, members[i]), members, i + 1)

\* the trait part of ser3_write_object0: a reference to cached traits, or
\* the trait header, the class name and the members; only traits with a
\* class name enter the trait cache
ser3_write_traits(s, class_name, members, dynamic, externalizable) ==
    IF s.err # "none" THEN s
    ELSE IF class_name # VNil /\ class_name.t # "str" THEN ser_raise(s, "SIGSEGV")
    ELSE IF class_name # VNil /\ st_lookup(s.trait_cache, CStr(class_name.s)) >= 0
    THEN ser_write_int(s, Shl(st_lookup(s.trait_cache, CStr(class_name.s)), 2) + 1)
    ELSE ser3_write_members(
             ser3_write_utf8vr(
                 ser_write_int(
                     IF class_name = VNil THEN s
                     ELSE [s EXCEPT !.trait_cache =
                                        Append(@, << CStr(class_name.s), s.trait_index >>),
                                    !.trait_index = @ + 1],
                     3 + (IF dynamic THEN 8 ELSE 0) + (IF externalizable THEN 4 ELSE 0)
                       + Shl(Len(members), 4)),
                 class_name),
             members, 1)

\* the rest of ser3_write_object0 once the traits are written; opts is the
\* @_serialize_opts the function read when it was entered
ser3_write_props(s, h, props, members, dynamic, externalizable, opts) ==
    IF s.err # "none" THEN s
    ELSE IF externalizable THEN ser_raise(s, "RuntimeError")
    ELSE Bind(ser3_write_sealed(s, h, props, members, 1), LAMBDA u :
             IF dynamic
             THEN ser_write_byte(
                      ser3_write_dynamic(u, h, props, members, translate_case(opts), 1),
                      AMF3_CLOSE_DYNAMIC_OBJECT)
             ELSE u)

\* props is nil or a hash ([t |-> "hash", props |-> ...]), traits is nil or
\* a traits hash
ser3_write_object0(s, h, obj, props, traits) ==
    Bind(ser_write_byte(s, AMF3_OBJECT_MARKER), LAMBDA a :
        IF ser_obj_cached(a, obj.id)
        THEN ser_write_int(a, Shl(st_lookup(a.obj_cache, obj.id), 1))
        ELSE
          Bind(IF traits = VNil THEN get_as_class_name(h[obj.id])
               ELSE traits.class_name, LAMBDA class_name :
          Bind(IF traits = VNil THEN << >> ELSE traits.members, LAMBDA members :
          Bind(IF traits = VNil THEN TRUE ELSE traits.dynamic, LAMBDA dynamic :
          Bind(IF traits = VNil THEN FALSE ELSE traits.externalizable,
               LAMBDA externalizable :
              ser3_write_props(
                  ser3_write_traits(ser_obj_cache_add(a, obj.id), class_name, members,
                                    dynamic, externalizable),
                  h,
                  IF props = VNil THEN props_for_serialization(h[obj.id])
                  ELSE props.props,
                  members, dynamic, externalizable, s.opts))))))

\* data holds the time in microseconds: long tmp_num = to_f * 1000
ser3_write_time(s, h, time) ==
    Bind(ser_write_byte(s, AMF3_DATE_MARKER), LAMBDA a :
        IF ser_obj_cached(a, time.id)
        THEN ser_write_int(a, Shl(st_lookup(a.obj_cache, time.id), 1))
        ELSE ser_write_double(
                 ser_write_byte(ser_obj_cache_add(a, time.id), AMF3_NULL_MARKER),
                 DoubleOfInt(TruncDiv(h[time.id].data, 1000))))

\* data holds what strftime("%Q") gives: the milliseconds
ser3_write_date(s, h, date) ==
    Bind(ser_write_byte(s, AMF3_DATE_MARKER), LAMBDA a :
        IF ser_obj_cached(a, date.id)
        THEN ser_write_int(a, Shl(st_lookup(a.obj_cache, date.id), 1))
        ELSE ser_write_double(
                 ser_write_byte(ser_obj_cache_add(a, date.id), AMF3_NULL_MARKER),
                 DoubleOfInt(h[date.id].data)))

\* data holds ba.string
ser3_write_byte_array(s, h, ba) ==
    Bind(ser_write_byte(s, AMF3_BYTE_ARRAY_MARKER), LAMBDA a :
        IF ser_obj_cached(a, ba.id)
        THEN ser_write_int(a, Shl(st_lookup(a.obj_cache, ba.id), 1))
        ELSE ser3_write_utf8vr(ser_obj_cache_add(a, ba.id), VStr(h[ba.id].data)))

\* the type switch of ser3_serialize; no object of the model responds to
\* encode_amf, and its integers are Fixnums
\* obj.encode_amf(ser) of an object that has the method (Ruby code outside
\* src/): it hands itself and its own traits to AMF3Serializer#write_object
ser3_encode_amf(s, h, obj) == ser3_write_object0(s, h, obj, VNil, h[obj.id].data)

ser3_switch(s, h, obj) ==
    IF obj.t = "ref" /\ h[obj.id].k = "encodable" THEN ser3_encode_amf(s, h, obj)
    ELSE IF obj.t \in { "str", "sym" }
    THEN ser3_write_utf8vr(ser_write_byte(s, AMF3_STRING_MARKER), obj)
    ELSE IF obj.t = "int"
    THEN IF obj.n < MIN_INTEGER \/ obj.n > MAX_INTEGER
         THEN ser_write_double(ser_write_byte(s, AMF3_DOUBLE_MARKER), DoubleOfInt(obj.n))
         ELSE ser_write_int(ser_write_byte(s, AMF3_INTEGER_MARKER), obj.n)
    ELSE IF obj.t = "float"
    THEN ser_write_double(ser_write_byte(s, AMF3_DOUBLE_MARKER), obj.d)
    ELSE IF obj.t = "nil" THEN ser_write_byte(s, AMF3_NULL_MARKER)
    ELSE IF obj.t = "bool"
    THEN ser_write_byte(s, IF obj.b THEN AMF3_TRUE_MARKER ELSE AMF3_FALSE_MARKER)
    ELSE IF obj.t # "ref" THEN s
    ELSE IF h[obj.id].k = "array" THEN ser3_write_array(s, h, obj)
    ELSE IF h[obj.id].k = "hash" THEN ser3_write_object0(s, h, obj, VNil, VNil)
    ELSE IF h[obj.id].k = "time" THEN ser3_write_time(s, h, obj)
    ELSE IF h[obj.id].k = "date" THEN ser3_write_date(s, h, obj)
    ELSE IF h[obj.id].k = "bytes" THEN ser3_write_byte_array(s, h, obj)
    ELSE IF h[obj.id].k = "object" THEN ser3_write_object0(s, h, obj, VNil, VNil)
    ELSE s

\* ser->depth--; if(ser->depth == 0) ser->depth = -1;
ser_leave(s) ==
    IF s.err # "none" THEN s
    ELSE [s EXCEPT !.depth = IF @ - 1 = 0 THEN -1 ELSE @ - 1]

\* ser3_serialize without the test of depth == -1
ser3_serialize_reentered(s, h, obj, opts) ==
    IF s.err # "none" THEN s
    ELSE ser_leave(ser3_switch([s EXCEPT !.opts = opts, !.depth = @ + 1], h, obj))

\* the struct after ser3_serialize(obj, opts); the call returns the stream
\* when it leaves depth at -1 and nil otherwise
ser3_serialize(s, h, obj, opts) ==
    IF s.err # "none" THEN s
    ELSE IF s.depth = -1 THEN [s EXCEPT !.opts = opts]
    ELSE ser_leave(ser3_switch([s EXCEPT !.opts = opts, !.depth = @ + 1], h, obj))

---------------------------------------------------------------------------
(* The AMF0 serializer (serializer.c:196-443) *)

RECURSIVE ser0_serialize(_, _, _, _)
RECURSIVE ser0_write_array_items(_, _, _, _)
RECURSIVE ser0_write_props(_, _, _, _, _)

\* for(i = 0; i < len; i++) ser0_serialize(1, &RARRAY_PTR(ary)[i], self);
ser0_write_array_items(s, h, items, i) ==
    IF s.err # "none" \/ i > Len(items) THEN s
    ELSE ser0_write_array_items(ser0_serialize(s, h, items[i], VNil), h, items, i + 1)

ser0_write_array(s, h, ary) ==
    ser0_write_array_items(
        ser_write_uint32(
            ser_write_byte(ser_obj_cache_add(s, ary.id), AMF0_STRICT_ARRAY_MARKER),
            Len(h[ary.id].items)),
        h, h[ary.id].items, 1)

ser0_write_string(s, obj, write_marker) ==
    IF s.err # "none" THEN s
    ELSE IF obj.t \notin { "str", "sym" } THEN ser_raise(s, "ArgumentError")
    ELSE Bind(IF obj.t = "str" THEN obj.s ELSE CStr(obj.s), LAMBDA str :
             ser_write(
                 IF Len(str) > 65535
                 THEN ser_write_uint32(
                          IF write_marker THEN ser_write_byte(s, AMF0_LONG_STRING_MARKER)
                          ELSE s, Len(str))
                 ELSE ser_write_uint16(
                          IF write_marker THEN ser_write_byte(s, AMF0_STRING_MARKER)
                          ELSE s, Len(str)),
                 str))

ser0_hash_iter(s, h, key, val, tc) ==
    IF s.err # "none" THEN s
    ELSE Bind(IF tc THEN camelcase_str(s, key) ELSE [s EXCEPT !.tmp = key], LAMBDA k :
             ser0_serialize(ser0_write_string(k, k.tmp, FALSE), h, val, VNil))

\* rb_hash_foreach(props, ser0_hash_iter, &args) from entry i on
ser0_write_props(s, h, props, tc, i) ==
    IF s.err # "none" \/ i > Len(props) THEN s
    ELSE ser0_write_props(ser0_hash_iter(s, h, props[i][1], props[i][2], tc),
                          h, props, tc, i + 1)

\* props is nil or a hash ([t |-> "hash", props |-> ...]); translate_case is
\* taken from the @_serialize_opts the function read when it was entered
ser0_write_object0(s, h, obj, props) ==
    Bind(ser_obj_cache_add(s, obj.id), LAMBDA a :
    Bind(get_as_class_name(h[obj.id]), LAMBDA class_name :
        ser_write_byte(
            ser_write_uint16(
                ser0_write_props(
                    IF class_name # VNil
                    THEN ser0_write_string(ser_write_byte(a, AMF0_TYPED_OBJECT_MARKER),
                                           class_name, FALSE)
                    ELSE IF h[obj.id].k = "hash"
                    THEN ser_write_uint32(ser_write_byte(a, AMF0_HASH_MARKER),
                                          Len(h[obj.id].props))
                    ELSE ser_write_byte(a, AMF0_OBJECT_MARKER),
                    h,
                    IF props = VNil THEN props_for_serialization(h[obj.id])
                    ELSE props.props,
                    translate_case(s.opts), 1),
                0),
            AMF0_OBJECT_END_MARKER)))

\* data holds the time in microseconds: long tmp_num = to_f * 1000
ser0_write_time(s, h, time) ==
    ser_write_uint16(
        ser_write_double(ser_write_byte(s, AMF0_DATE_MARKER),
                         DoubleOfInt(TruncDiv(h[time.id].data, 1000))),
        0)

\* data holds what strftime("%Q") gives: the milliseconds
ser0_write_date(s, h, date) ==
    ser_write_uint16(
        ser_write_double(ser_write_byte(s, AMF0_DATE_MARKER), DoubleOfInt(h[date.id].data)),
        0)

\* the type switch of ser0_serialize; only heap objects have an object id
\* that can be in the obj_cache
\* obj.encode_amf(ser) of an object that has the method (Ruby code outside
\* src/): it hands itself to Serializer#write_object
ser0_encode_amf(s, h, obj) == ser0_write_object0(s, h, obj, VNil)

ser0_switch(s, h, obj) ==
    IF obj.t = "ref" /\ ser_obj_cached(s, obj.id)
    THEN ser_write_uint16(ser_write_byte(s, AMF0_REFERENCE_MARKER),
                          st_lookup(s.obj_cache, obj.id))
    ELSE IF obj.t = "ref" /\ h[obj.id].k = "encodable" THEN ser0_encode_amf(s, h, obj)
    ELSE IF obj.t \in { "str", "sym" } THEN ser0_write_string(s, obj, TRUE)
    ELSE IF obj.t = "int"
    THEN ser_write_double(ser_write_byte(s, AMF0_NUMBER_MARKER), DoubleOfInt(obj.n))
    ELSE IF obj.t = "float"
    THEN ser_write_double(ser_write_byte(s, AMF0_NUMBER_MARKER), obj.d)
    ELSE IF obj.t = "nil" THEN ser_write_byte(s, AMF0_NULL_MARKER)
    ELSE IF obj.t = "bool"
    THEN ser_write_byte(ser_write_byte(s, AMF0_BOOLEAN_MARKER), IF obj.b THEN 1 ELSE 0)
    ELSE IF obj.t # "ref" THEN s
    ELSE IF h[obj.id].k = "array" THEN ser0_write_array(s, h, obj)
    ELSE IF h[obj.id].k = "time" THEN ser0_write_time(s, h, obj)
    ELSE IF h[obj.id].k = "date" THEN ser0_write_date(s, h, obj)
    ELSE IF h[obj.id].k \in { "hash", "object" } THEN ser0_write_object0(s, h, obj, VNil)
    ELSE s

\* the struct after ser0_serialize(obj, opts); the call returns the stream
\* when it leaves depth at -1 and nil otherwise
ser0_serialize(s, h, obj, opts) ==
    IF s.err # "none" THEN s
    ELSE IF s.depth = -1 THEN [s EXCEPT !.opts = opts]
    ELSE ser_leave(ser0_switch([s EXCEPT !.opts = opts, !.depth = @ + 1], h, obj))

---------------------------------------------------------------------------
(* The deserializer: the struct and the primitive reads (deserializer.c:4-177) *)

\* des_alloc: memset(des, 0, ...).  src_pos is the position of the StringIO
\* des->src wraps (src_set: whether there is one).
des_alloc ==
    [ stream |-> << >>, pos |-> 0, size |-> 0, depth |-> 0,
      obj_cache |-> << >>, str_cache |-> << >>, trait_cache |-> << >>,
      src_set |-> FALSE, src_pos |-> 0 ]

\* Observation of the memory the deserializer touches: buf_oob whether a
\* buffer index outside 0 .. size-1 was read or written, buf_wr whether the
\* source buffer was written, and the table, index and table length of a
\* cache read (one outside the table is kept).
mem_init ==
    [ buf_oob |-> FALSE, buf_wr |-> FALSE,
      ref_tab |-> "none", ref_idx |-> 0, ref_len |-> 0 ]

\* The context a call threads: the struct it works on (des), the other
\* struct (other: the caller's while des0_read_amf3 runs, esc says so), the
\* heap, the call stack, the exception raised, the memory observation, the
\* result of the last read (n an int, s a byte string, v a value), whether
\* the call now waits for a nested deserialize call (pending) and what a read
\* outside an array does in this run (ub: "crash" or "garbage").
CtxFull(d, o, esc, h, fs, m, ub) ==
    [ des |-> d, other |-> o, esc |-> esc, heap |-> h, frames |-> fs,
      err |-> "none", mem |-> m, n |-> 0, s |-> << >>, v |-> VNil,
      pending |-> FALSE, ub |-> ub ]

Ctx(d, h, m) == CtxFull(d, des_alloc, FALSE, h, << >>, m, "crash")

Raise(c, e) == IF c.err # "none" THEN c ELSE [c EXCEPT !.err = e]

Touch(m, size, idx) == [m EXCEPT !.buf_oob = @ \/ idx < 0 \/ idx >= size]

\* DES_BOUNDS_CHECK(des, i) passes
DES_BOUNDS_OK(c, i) == ~(c.des.pos + i > c.des.size)

\* des->stream[i], i counted from 0; the byte after the last is the NUL that
\* ends a Ruby string's buffer
StreamAt(d, i) == IF i >= 0 /\ i < Len(d.stream) THEN d.stream[i + 1] ELSE 0

des_read_byte(c) ==
    IF c.err # "none" THEN c
    ELSE IF ~DES_BOUNDS_OK(c, 1) THEN Raise(c, "RangeError")
    ELSE [c EXCEPT !.des.pos = @ + 1,
                   !.n = StreamAt(c.des, c.des.pos),
                   !.mem = Touch(@, c.des.size, c.des.pos)]

des_read_uint16(c) ==
    IF c.err # "none" THEN c
    ELSE IF ~DES_BOUNDS_OK(c, 2) THEN Raise(c, "RangeError")
    ELSE [c EXCEPT !.des.pos = @ + 2,
                   !.n = StreamAt(c.des, c.des.pos) * 256 + StreamAt(c.des, c.des.pos + 1),
                   !.mem = Touch(@, c.des.size, c.des.pos + 1)]

\* (str[0] << 24) | ... is computed in int: with str[0] >= 0x80 the value
\* wraps to a negative int, which the long return type keeps.
des_read_uint32(c) ==
    IF c.err # "none" THEN c
    ELSE IF ~DES_BOUNDS_OK(c, 4) THEN Raise(c, "RangeError")
    ELSE LET b0 == StreamAt(c.des, c.des.pos)
             hi == IF b0 >= 128 THEN b0 - 256 ELSE b0
         IN  [c EXCEPT !.des.pos = @ + 4,
                   !.n = hi * 16777216 + StreamAt(c.des, c.des.pos + 1) * 65536
                         + StreamAt(c.des, c.des.pos + 2) * 256
                         + StreamAt(c.des, c.des.pos + 3),
                   !.mem = Touch(@, c.des.size, c.des.pos + 3)]

des_read_double(c) ==
    IF c.err # "none" THEN c
    ELSE IF ~DES_BOUNDS_OK(c, 8) THEN Raise(c, "RangeError")
    ELSE [c EXCEPT !.des.pos = @ + 8,
                   !.s = Reverse8([i \in 1 .. 8 |-> StreamAt(c.des, c.des.pos + i - 1)]),
                   !.mem = Touch(@, c.des.size, c.des.pos + 7)]

\* The loop of des_read_int: result and byte_cnt after the continuation bytes
RECURSIVE des_read_int_loop(_, _, _)
des_read_int_loop(c, result, byte_cnt) ==
    IF c.err # "none" THEN [c |-> c, result |-> result, byte_cnt |-> byte_cnt]
    ELSE IF c.n >= 128 /\ byte_cnt < 3
    THEN des_read_int_loop(des_read_byte(c), Shl(result, 7) + LowBits(c.n, 7),
                           byte_cnt + 1)
    ELSE [c |-> c, result |-> result, byte_cnt |-> byte_cnt]

des_read_int_7bit(c) ==
    Bind(des_read_int_loop(des_read_byte(c), 0, 0), LAMBDA l :
    Bind(Shl(l.result, 7) + LowBits(l.c.n, 7), LAMBDA r :
        IF l.c.err # "none" THEN l.c
        ELSE [l.c EXCEPT !.n = IF BitSet(r, 28) THEN r - 536870912 ELSE r]))

\* des_read_int without the subtraction of 0x20000000
des_read_int_unsigned(c) ==
    Bind(des_read_int_loop(des_read_byte(c), 0, 0), LAMBDA l :
    Bind(IF l.byte_cnt < 3 THEN Shl(l.result, 7) + LowBits(l.c.n, 7)
         ELSE Shl(l.result, 8) + l.c.n, LAMBDA r :
        IF l.c.err # "none" THEN l.c ELSE [l.c EXCEPT !.n = r]))

des_read_int(c) ==
    Bind(des_read_int_loop(des_read_byte(c), 0, 0), LAMBDA l :
    Bind(IF l.byte_cnt < 3 THEN Shl(l.result, 7) + LowBits(l.c.n, 7)
         ELSE Shl(l.result, 8) + l.c.n, LAMBDA r :
        IF l.c.err # "none" THEN l.c
        ELSE [l.c EXCEPT !.n = IF BitSet(r, 28) THEN r - 536870912 ELSE r]))

\* rb_str_new raises ArgumentError for a negative length
\* des_read_string with a string made of a negative length
des_read_string_signed(c, len) ==
    IF c.err # "none" THEN c
    ELSE IF ~DES_BOUNDS_OK(c, len) THEN Raise(c, "RangeError")
    ELSE [c EXCEPT !.des.pos = @ + len,
                   !.s = SubSeq(c.des.stream, c.des.pos + 1, c.des.pos + len)]

des_read_string(c, len) ==
    IF c.err # "none" THEN c
    ELSE IF ~DES_BOUNDS_OK(c, len) THEN Raise(c, "RangeError")
    ELSE IF len < 0 THEN Raise(c, "ArgumentError")
    ELSE [c EXCEPT !.des.pos = @ + len,
                   !.s = SubSeq(c.des.stream, c.des.pos + 1, c.des.pos + len),
                   !.mem = IF len > 0 THEN Touch(@, c.des.size, c.des.pos + len - 1)
                           ELSE @]

\* des_read_sym saves stream[pos+len], overwrites it with NUL, interns the C
\* string at stream+pos and restores the byte.  It is only called with the
\* len > 0 of a uint16.
des_read_sym(c, len) ==
    IF c.err # "none" THEN c
    ELSE IF ~DES_BOUNDS_OK(c, len) THEN Raise(c, "RangeError")
    ELSE [c EXCEPT !.des.pos = @ + len,
                   !.s = CStr(SubSeq(c.des.stream, c.des.pos + 1, c.des.pos + len)),
                   !.mem = [Touch(@, c.des.size, c.des.pos + len)
                              EXCEPT !.buf_wr = TRUE]]



---------------------------------------------------------------------------
(* The deserializer: call stack, caches and the class mapper *)

\* A stack frame: the function (k), where it stands (st), the object it
\* fills (obj, a heap id), its loop counter and limit (i, len), the key or
\* dictionary key it holds (key), the traits of the object (members, dynamic,
\* tc: translate_case), the property hashes not yet handed to the class
\* mapper (props, dyn), the type marker a des0_deserialize call was given
\* (type) and the object-cache length when the frame was entered (base).
Frame(k) ==
    [ k |-> k, st |-> "", obj |-> 0, i |-> 0, len |-> 0, key |-> VNil,
      members |-> << >>, dynamic |-> FALSE, tc |-> FALSE,
      props |-> << >>, dyn |-> << >>, type |-> 0, base |-> 0 ]

Call3 == Frame("des3_deserialize")
Call0(type) == [Frame("des0_deserialize") EXCEPT !.type = type]

\* the frame is left on the stack and a nested deserialize call is made
Suspend(c, f, callee) ==
    IF c.err # "none" THEN c
    ELSE [c EXCEPT !.frames = @ \o << f, callee >>, !.pending = TRUE]

Return(c, v) == IF c.err # "none" THEN c ELSE [c EXCEPT !.v = v]

\* a new Ruby object; its heap id is left in n
NewObj(c, o) ==
    IF c.err # "none" THEN c
    ELSE [c EXCEPT !.heap = Append(@, o), !.n = Len(c.heap) + 1]

\* a cache that puts a new entry first, shifting the indices of the others
obj_cache_push_front(c, v) ==
    IF c.err # "none" THEN c ELSE [c EXCEPT !.des.obj_cache = << v >> \o @]

obj_cache_push(c, v) ==
    IF c.err # "none" THEN c ELSE [c EXCEPT !.des.obj_cache = Append(@, v)]

str_cache_push(c, v) ==
    IF c.err # "none" THEN c ELSE [c EXCEPT !.des.str_cache = Append(@, v)]

trait_cache_push(c, v) ==
    IF c.err # "none" THEN c ELSE [c EXCEPT !.des.trait_cache = Append(@, v)]

\* the record of a cache read; a read outside the table is never overwritten
NoteRef(m, tab, idx, len) ==
    IF m.ref_tab # "none" /\ (m.ref_idx < 0 \/ m.ref_idx >= m.ref_len) THEN m
    ELSE [m EXCEPT !.ref_tab = tab, !.ref_idx = idx, !.ref_len = len]

\* if(idx >= RARRAY_LEN(cache)) rb_raise(...); return RARRAY_PTR(cache)[idx];
\* idx is signed, so a negative idx passes the test and the read is outside
\* the array: the process dies or the read yields whatever is there.
cache_ref(c, tab, cache, idx) ==
    IF c.err # "none" THEN c
    ELSE IF idx >= Len(cache) THEN Raise(c, "RangeError")
    ELSE IF idx < 0
    THEN IF c.ub = "crash"
         THEN Raise([c EXCEPT !.mem = NoteRef(@, tab, idx, Len(cache))], "SIGSEGV")
         ELSE Return([c EXCEPT !.mem = NoteRef(@, tab, idx, Len(cache))], Garbage)
    ELSE [c EXCEPT !.mem = NoteRef(@, tab, idx, Len(cache)), !.v = cache[idx + 1]]

\* a value used where the code takes RSTRING_PTR / RSTRING_LEN of it
NeedStr(c) ==
    IF c.err # "none" THEN c
    ELSE IF c.v.t = "str" THEN [c EXCEPT !.s = c.v.s]
    ELSE Raise(c, "SIGSEGV")

\* snakecase_str (deserializer.c:23-41): works on the C string of its
\* argument; an upper-case letter becomes '_' and the letter in lower case
RECURSIVE snakecase_chars(_)
snakecase_chars(s) ==
    IF s = << >> THEN << >>
    ELSE (IF Head(s) >= 65 /\ Head(s) <= 90 THEN << 95, Head(s) + 32 >>
          ELSE << Head(s) >>) \o snakecase_chars(Tail(s))

snakecase_str(s) == snakecase_chars(CStr(s))

\* The class mapper (RocketAMF::ClassMapper, Ruby code outside src/):
\* get_ruby_obj gives a Hash for the empty class name and an object of the
\* class otherwise; translate_case is an option of the mapped class;
\* populate_ruby_obj assigns the sealed then the dynamic properties.
TranslateCaseClasses == { << 84 >> }

get_ruby_obj(class_name) ==
    IF class_name = << >> THEN Obj("hash", << >>, << >>, << >>, << >>)
    ELSE Obj("object", class_name, << >>, << >>, << >>)

get_ruby_option(obj) == obj.cls \in TranslateCaseClasses

RECURSIVE hash_merge(_, _)
hash_merge(props, more) ==
    IF more = << >> THEN props
    ELSE hash_merge(rb_hash_aset(props, Head(more)[1], Head(more)[2]), Tail(more))

populate_ruby_obj(c, id, props, dyn) ==
    IF c.err # "none" THEN c
    ELSE [c EXCEPT !.heap[id].props = hash_merge(hash_merge(@, props), dyn)]

\* "flex.messaging.io.ArrayCollection"
ArrayCollectionName ==
    << 102, 108, 101, 120, 46, 109, 101, 115, 115, 97, 103, 105, 110, 103, 46,
       105, 111, 46, 65, 114, 114, 97, 121, 67, 111, 108, 108, 101, 99, 116,
       105, 111, 110 >>


---------------------------------------------------------------------------
(* The AMF3 deserializer: the readers that make no nested call
   (deserializer.c:442-470, 595-630) *)

des3_read_string(c) ==
    Bind(des_read_int(c), LAMBDA h :
        IF h.err # "none" THEN h
        ELSE IF LowBits(h.n, 1) = 0
        THEN cache_ref(h, "str", h.des.str_cache, Sar(h.n, 1))
        ELSE Bind(des_read_string(h, Sar(h.n, 1)), LAMBDA r :
                 IF r.err # "none" THEN r
                 ELSE IF Len(r.s) > 0
                 THEN Return(str_cache_push(r, VStr(r.s)), VStr(r.s))
                 ELSE Return(r, VStr(r.s))))

des3_read_xml(c) ==
    Bind(des_read_int(c), LAMBDA h :
        IF h.err # "none" THEN h
        ELSE IF LowBits(h.n, 1) = 0
        THEN cache_ref(h, "obj", h.des.obj_cache, Sar(h.n, 1))
        ELSE Bind(des_read_string(h, Sar(h.n, 1)), LAMBDA r :
                 IF r.err # "none" THEN r
                 ELSE IF Len(r.s) > 0
                 THEN Return(obj_cache_push(r, VStr(r.s)), VStr(r.s))
                 ELSE Return(r, VStr(r.s))))

\* the Time is built from the double read; the split into seconds and
\* microseconds of rb_time_new is not modelled, data keeps the double
des3_read_time(c) ==
    Bind(des_read_int(c), LAMBDA h :
        IF h.err # "none" THEN h
        ELSE IF LowBits(h.n, 1) = 0
        THEN cache_ref(h, "obj", h.des.obj_cache, Sar(h.n, 1))
        ELSE Bind(des_read_double(h), LAMBDA r :
             Bind(NewObj(r, Obj("time", << >>, << >>, << >>, r.s)), LAMBDA o :
                 Return(obj_cache_push(o, VRef(o.n)), VRef(o.n)))))

des3_read_byte_array(c) ==
    Bind(des_read_int(c), LAMBDA h :
        IF h.err # "none" THEN h
        ELSE IF LowBits(h.n, 1) = 0
        THEN cache_ref(h, "obj", h.des.obj_cache, Sar(h.n, 1))
        ELSE Bind(des_read_string(h, Sar(h.n, 1)), LAMBDA r :
             Bind(NewObj(r, Obj("bytes", << >>, << >>, << >>, r.s)), LAMBDA o :
                 Return(obj_cache_push(o, VRef(o.n)), VRef(o.n)))))

---------------------------------------------------------------------------
(* The AMF3 deserializer: arrays, objects and dictionaries
   (deserializer.c:472-593, 632-658).  Each function is cut where it calls
   des3_deserialize: it leaves its frame on the stack, and des3_*_next is the
   rest of the function from the return of that call on. *)

\* rb_fix2str(INT2FIX(i), 10)
RECURSIVE Decimal(_)
Decimal(i) == IF i < 10 THEN << 48 + i >> ELSE Decimal(i \div 10) \o << 48 + (i % 10) >>

\* the dense part of des3_read_array from element i on
des3_read_array_dense(c, f) ==
    IF c.err # "none" THEN c
    ELSE IF f.i < f.len THEN Suspend(c, f, Call3)
    ELSE Return(c, VRef(f.obj))

\* the associative part from the key just read (in v) on
des3_read_array_assoc(c, f) ==
    Bind(NeedStr(c), LAMBDA k :
        IF k.err # "none" THEN k
        ELSE IF Len(k.s) # 0
        THEN Suspend(k, [f EXCEPT !.st = "assoc", !.key = VStr(k.s)], Call3)
        ELSE des3_read_array_dense(k, [f EXCEPT !.st = "dense_hash", !.i = 0]))

des3_read_array(c) ==
    Bind(des_read_int(c), LAMBDA h :
        IF h.err # "none" THEN h
        ELSE IF LowBits(h.n, 1) = 0
        THEN cache_ref(h, "obj", h.des.obj_cache, Sar(h.n, 1))
        ELSE
          Bind(NeedStr(des3_read_string(h)), LAMBDA k :
          Bind([Frame("des3_read_array") EXCEPT !.len = Sar(h.n, 1),
                                               !.base = Len(h.des.obj_cache)], LAMBDA f :
              IF k.err # "none" THEN k
              ELSE IF Len(k.s) # 0
              THEN Bind(NewObj(k, Obj("hash", << >>, << >>, << >>, << >>)), LAMBDA o :
                       des3_read_array_assoc(
                           [obj_cache_push(o, VRef(o.n)) EXCEPT !.v = VStr(k.s)],
                           [f EXCEPT !.obj = o.n]))
              ELSE IF f.len < 0 THEN Raise(k, "ArgumentError")
              ELSE Bind(NewObj(k, Obj("array", << >>, << >>, << >>, << >>)), LAMBDA o :
                       des3_read_array_dense(obj_cache_push(o, VRef(o.n)),
                           [f EXCEPT !.obj = o.n, !.st = "dense"])))))

\* des3_read_array after the nested call returned v
des3_read_array_next(c, f) ==
    IF f.st = "assoc"
    THEN des3_read_array_assoc(
             des3_read_string(
                 [c EXCEPT !.heap[f.obj].props = rb_hash_aset(@, f.key, c.v)]),
             f)
    ELSE IF f.st = "dense_hash"
    THEN des3_read_array_dense(
             [c EXCEPT !.heap[f.obj].props = rb_hash_aset(@, VStr(Decimal(f.i)), c.v)],
             [f EXCEPT !.i = @ + 1])
    ELSE des3_read_array_dense(
             [c EXCEPT !.heap[f.obj].items = Append(@, c.v)],
             [f EXCEPT !.i = @ + 1])

Traits(class_name, members, externalizable, dynamic) ==
    [ t |-> "traits", class_name |-> class_name, members |-> members,
      externalizable |-> externalizable, dynamic |-> dynamic ]

\* for(i = 0; i < members_len; i++) rb_ary_push(members, des3_read_string(des));
\* the members read so far are in s2
RECURSIVE des3_read_members(_, _, _)
des3_read_members(c, n, acc) ==
    IF c.err # "none" \/ n <= 0 THEN [c |-> c, members |-> acc]
    ELSE Bind(des3_read_string(c), LAMBDA r :
             des3_read_members(r, n - 1, Append(acc, r.v)))

\* the key of a property: rb_str_intern of the name, in snake_case if asked
PropKey(name, tc) == VSym(IF tc THEN snakecase_str(name) ELSE name)

\* the dynamic properties of des3_read_object from the next key on
des3_read_object_dynamic(c, f) ==
    IF c.err # "none" THEN c
    ELSE IF ~f.dynamic
    THEN Return(populate_ruby_obj(c, f.obj, f.props, << >>), VRef(f.obj))
    ELSE Bind(NeedStr(des3_read_string(c)), LAMBDA k :
         Bind(IF f.tc THEN snakecase_str(k.s) ELSE k.s, LAMBDA key :
             IF k.err # "none" THEN k
             ELSE IF Len(key) = 0
             THEN Return(populate_ruby_obj(k, f.obj, f.props, f.dyn), VRef(f.obj))
             ELSE Suspend(k, [f EXCEPT !.st = "dynamic", !.key = VSym(key)], Call3)))

\* the sealed members from member i on
des3_read_object_sealed(c, f) ==
    IF c.err # "none" THEN c
    ELSE IF f.i < Len(f.members)
    THEN IF f.members[f.i + 1].t # "str" THEN Raise(c, "SIGSEGV")
         ELSE Suspend(c, [f EXCEPT !.st = "sealed",
                                   !.key = PropKey(f.members[f.i + 1].s, f.tc)],
                      Call3)
    ELSE des3_read_object_dynamic(c, f)

\* des3_read_object from the traits (in tr) on; class_name is a string
des3_read_object_body(c, tr) ==
    IF c.err # "none" THEN c
    ELSE IF CStr(tr.class_name) = ArrayCollectionName
    THEN Suspend(c, [Frame("des3_read_object") EXCEPT
                        !.st = "array_collection", !.base = Len(c.des.obj_cache)],
                 Call3)
    ELSE
      Bind(NewObj(c, get_ruby_obj(tr.class_name)), LAMBDA o :
      Bind(obj_cache_push(o, VRef(o.n)), LAMBDA p :
      Bind([Frame("des3_read_object") EXCEPT
                   !.obj = o.n, !.members = tr.members, !.dynamic = tr.dynamic,
                   !.tc = get_ruby_option(get_ruby_obj(tr.class_name)),
                   !.base = Len(c.des.obj_cache)], LAMBDA f :
          IF tr.externalizable
          THEN \* read_external(self): the object calls deserialize() once and
               \* keeps the value; des3_deserialize_rb takes pos from the source
               Suspend([p EXCEPT !.des.src_pos = p.des.pos],
                       [f EXCEPT !.st = "external"], Call3)
          ELSE des3_read_object_sealed(p, f))))

des3_read_object(c) ==
    Bind(des_read_int(c), LAMBDA h :
        IF h.err # "none" THEN h
        ELSE IF LowBits(h.n, 1) = 0
        THEN cache_ref(h, "obj", h.des.obj_cache, Sar(h.n, 1))
        ELSE
          Bind(Sar(h.n, 1), LAMBDA header :
              IF LowBits(header, 1) = 0
              THEN Bind(cache_ref(h, "trait", h.des.trait_cache, Sar(header, 1)),
                        LAMBDA t :
                       IF t.err # "none" THEN t
                       ELSE IF t.v.t # "traits" THEN Raise(t, "SIGSEGV")
                       ELSE des3_read_object_body(t, t.v))
              ELSE
                Bind(NeedStr(des3_read_string(h)), LAMBDA cn :
                Bind(des3_read_members(
                         IF Sar(header, 3) < 0 THEN Raise(cn, "ArgumentError") ELSE cn,
                         Sar(header, 3), << >>), LAMBDA ms :
                Bind(Traits(cn.s, ms.members, BitSet(LowBits(header, 3), 1),
                            BitSet(LowBits(header, 3), 2)), LAMBDA tr :
                    des3_read_object_body(trait_cache_push(ms.c, tr), tr))))))

\* des3_read_object after the nested call returned v
des3_read_object_next(c, f) ==
    IF f.st = "array_collection"
    THEN Return(obj_cache_push(c, c.v), c.v)
    ELSE IF f.st = "external"
    THEN Return([c EXCEPT !.des.src_pos = c.des.pos,
                          !.heap[f.obj].props = << << VSym(<< >>), c.v >> >>],
                VRef(f.obj))
    ELSE IF f.st = "sealed"
    THEN des3_read_object_sealed(c, [f EXCEPT !.props = rb_hash_aset(@, f.key, c.v),
                                              !.i = @ + 1])
    ELSE des3_read_object_dynamic(c, [f EXCEPT !.dyn = rb_hash_aset(@, f.key, c.v)])

\* the loop of des3_read_dict from entry i on
des3_read_dict_loop(c, f) ==
    IF c.err # "none" THEN c
    ELSE IF f.i < f.len THEN Suspend(c, [f EXCEPT !.st = "key"], Call3)
    ELSE Return(c, VRef(f.obj))

\* a dictionary reader that does not enter the dictionary in the object cache
des3_read_dict_uncached(c) ==
    Bind(des_read_int(c), LAMBDA h :
        IF h.err # "none" THEN h
        ELSE IF LowBits(h.n, 1) = 0
        THEN cache_ref(h, "obj", h.des.obj_cache, Sar(h.n, 1))
        ELSE Bind(NewObj(h, Obj("hash", << >>, << >>, << >>, << >>)), LAMBDA o :
                 des3_read_dict_loop(des_read_int(o),
                     [Frame("des3_read_dict") EXCEPT !.obj = o.n, !.len = Sar(h.n, 1),
                                                    !.base = Len(h.des.obj_cache)])))

des3_read_dict(c) ==
    Bind(des_read_int(c), LAMBDA h :
        IF h.err # "none" THEN h
        ELSE IF LowBits(h.n, 1) = 0
        THEN cache_ref(h, "obj", h.des.obj_cache, Sar(h.n, 1))
        ELSE Bind(NewObj(h, Obj("hash", << >>, << >>, << >>, << >>)), LAMBDA o :
                 des3_read_dict_loop(des_read_int(obj_cache_push(o, VRef(o.n))),
                     [Frame("des3_read_dict") EXCEPT !.obj = o.n, !.len = Sar(h.n, 1),
                                                    !.base = Len(h.des.obj_cache)])))

\* des3_read_dict after a nested call returned v
des3_read_dict_next(c, f) ==
    IF f.st = "key" THEN Suspend(c, [f EXCEPT !.st = "val", !.key = c.v], Call3)
    ELSE des3_read_dict_loop(
             [c EXCEPT !.heap[f.obj].props = rb_hash_aset(@, f.key, c.v)],
             [f EXCEPT !.i = @ + 1])

---------------------------------------------------------------------------
(* des3_deserialize (deserializer.c:665-725) *)

\* des3_deserialize without the new caches at depth 0
des3_enter_kept(c) ==
    IF c.err # "none" THEN c ELSE [c EXCEPT !.des.depth = @ + 1]

\* if(des->depth == 0) { new caches }  des->depth++;
des3_enter(c) ==
    IF c.err # "none" THEN c
    ELSE [c EXCEPT !.des.obj_cache = IF c.des.depth = 0 THEN << >> ELSE @,
                   !.des.str_cache = IF c.des.depth = 0 THEN << >> ELSE @,
                   !.des.trait_cache = IF c.des.depth = 0 THEN << >> ELSE @,
                   !.des.depth = @ + 1]

\* a return that leaves depth as it is
des_leave_kept(c) == c

\* des->depth--; return ret;  -- unless the call raised or waits for a nested one
des_leave(c) ==
    IF c.err # "none" \/ c.pending THEN c
    ELSE [c EXCEPT !.des.depth = @ - 1]

des3_switch(c, type) ==
    IF c.err # "none" THEN c
    ELSE IF type \in { AMF3_UNDEFINED_MARKER, AMF3_NULL_MARKER } THEN Return(c, VNil)
    ELSE IF type = AMF3_FALSE_MARKER THEN Return(c, VBool(FALSE))
    ELSE IF type = AMF3_TRUE_MARKER THEN Return(c, VBool(TRUE))
    ELSE IF type = AMF3_INTEGER_MARKER
    THEN Bind(des_read_int(c), LAMBDA r : Return(r, VInt(r.n)))
    ELSE IF type = AMF3_DOUBLE_MARKER
    THEN Bind(des_read_double(c), LAMBDA r : Return(r, VFloat(r.s)))
    ELSE IF type = AMF3_STRING_MARKER THEN des3_read_string(c)
    ELSE IF type = AMF3_ARRAY_MARKER THEN des3_read_array(c)
    ELSE IF type = AMF3_OBJECT_MARKER THEN des3_read_object(c)
    ELSE IF type = AMF3_DATE_MARKER THEN des3_read_time(c)
    ELSE IF type \in { AMF3_XML_DOC_MARKER, AMF3_XML_MARKER } THEN des3_read_xml(c)
    ELSE IF type = AMF3_BYTE_ARRAY_MARKER THEN des3_read_byte_array(c)
    ELSE IF type = AMF3_DICT_MARKER THEN des3_read_dict(c)
    ELSE Raise(c, "RuntimeError")

des3_deserialize(c) ==
    Bind(des_read_byte(des3_enter(c)), LAMBDA t : des_leave(des3_switch(t, t.n)))

---------------------------------------------------------------------------
(* The AMF0 deserializer (deserializer.c:239-425) *)

\* des0_read_amf3 up to its call of des3_deserialize: a new deserializer
\* struct gets src, stream, pos and size of the caller's; from here on the
\* context works on the new struct
des0_read_amf3(c) ==
    IF c.err # "none" THEN c
    ELSE Suspend([c EXCEPT !.other = c.des, !.esc = TRUE,
                           !.des = [des_alloc EXCEPT !.stream = c.des.stream,
                                                     !.pos = c.des.pos,
                                                     !.size = c.des.size,
                                                     !.src_set = c.des.src_set,
                                                     !.src_pos = c.des.src_pos]],
                 Frame("des0_read_amf3"), Call3)

\* des0_read_amf3 that does not copy pos back
des0_read_amf3_stale(c, f) ==
    IF c.err # "none" THEN c
    ELSE [c EXCEPT !.des = c.other, !.other = c.des, !.esc = FALSE]

\* des0_read_amf3 after des3_deserialize returned: copy pos back (src, and
\* with it the position of the StringIO, is shared by the two structs)
des0_read_amf3_next(c, f) ==
    IF c.err # "none" THEN c
    ELSE [c EXCEPT !.des = [c.other EXCEPT !.pos = c.des.pos,
                                           !.src_pos = c.des.src_pos],
                   !.other = c.des, !.esc = FALSE]

\* the end of the function that called des0_read_props
des0_read_props_end(c, f) ==
    IF c.err # "none" THEN c
    ELSE IF f.st = "typed_object"
    THEN Return(populate_ruby_obj(c, f.obj, f.props, << >>), VRef(f.obj))
    ELSE Return(c, VRef(f.obj))

\* read_key(des, len), through snakecase_str if translate_case: a symbol (of
\* the C string) or a string; snakecase_str takes RSTRING_PTR of its
\* argument, which des_read_sym made a Symbol
des0_read_key(c, f, len) ==
    IF f.type = 1
    THEN Bind(des_read_sym(c, len), LAMBDA k :
             IF k.err # "none" THEN k
             ELSE IF f.tc
             THEN IF k.ub = "crash" THEN Raise(k, "SIGSEGV") ELSE Return(k, Garbage)
             ELSE Return(k, VSym(k.s)))
    ELSE Bind(des_read_string(c, len), LAMBDA k :
             Return(k, VStr(IF f.tc THEN snakecase_str(k.s) ELSE k.s)))

\* one turn of the while(1) of des0_read_props, up to the nested call
des0_read_props(c, f) ==
    Bind(des_read_uint16(c), LAMBDA l :
        IF l.err # "none" THEN l
        ELSE IF l.n = 0 THEN des0_read_props_end(des_read_byte(l), f)
        ELSE Bind(des0_read_key(l, f, l.n), LAMBDA k :
             Bind(des_read_byte(k), LAMBDA t :
                 Suspend(t, [f EXCEPT !.key = k.v], Call0(t.n)))))

\* des0_read_props after the nested call returned v: rb_hash_aset, next turn
des0_read_props_next(c, f) ==
    IF f.st = "typed_object"
    THEN des0_read_props(c, [f EXCEPT !.props = rb_hash_aset(@, f.key, c.v)])
    ELSE des0_read_props([c EXCEPT !.heap[f.obj].props = rb_hash_aset(@, f.key, c.v)], f)

\* type 1: keys are read with des_read_sym, type 0: with des_read_string
des0_read_object(c) ==
    Bind(NewObj(c, Obj("hash", << >>, << >>, << >>, << >>)), LAMBDA o :
        des0_read_props(obj_cache_push(o, VRef(o.n)),
            [Frame("des0_read_props") EXCEPT !.st = "object", !.obj = o.n, !.type = 1,
                                            !.base = Len(c.des.obj_cache)]))

des0_read_typed_object(c) ==
    Bind(des_read_uint16(c), LAMBDA n :
    Bind(des_read_string(n, n.n), LAMBDA cn :
    Bind(NewObj(cn, get_ruby_obj(cn.s)), LAMBDA o :
        des0_read_props(obj_cache_push(o, VRef(o.n)),
            [Frame("des0_read_props") EXCEPT !.st = "typed_object", !.obj = o.n,
                 !.type = 1, !.tc = get_ruby_option(get_ruby_obj(cn.s)),
                 !.base = Len(c.des.obj_cache)]))))

\* the class mapper maps no class to "Hash": obj = rb_hash_new()
des0_read_hash(c) ==
    Bind(des_read_uint32(c), LAMBDA n :
    Bind(NewObj(n, Obj("hash", << >>, << >>, << >>, << >>)), LAMBDA o :
        des0_read_props(obj_cache_push(o, VRef(o.n)),
            [Frame("des0_read_props") EXCEPT !.st = "hash", !.obj = o.n, !.type = 0,
                                            !.base = Len(c.des.obj_cache)])))

\* the loop of des0_read_array from element i on
des0_read_array_loop(c, f) ==
    IF c.err # "none" THEN c
    ELSE IF f.i < f.len
    THEN Bind(des_read_byte(c), LAMBDA t : Suspend(t, f, Call0(t.n)))
    ELSE Return(c, VRef(f.obj))

\* rb_ary_new2 raises ArgumentError for a negative capacity
des0_read_array(c) ==
    Bind(des_read_uint32(c), LAMBDA n :
    Bind(IF n.err = "none" /\ n.n < 0 THEN Raise(n, "ArgumentError") ELSE n, LAMBDA a :
    Bind(NewObj(a, Obj("array", << >>, << >>, << >>, << >>)), LAMBDA o :
        des0_read_array_loop(obj_cache_push(o, VRef(o.n)),
            [Frame("des0_read_array") EXCEPT !.obj = o.n, !.len = n.n,
                                            !.base = Len(c.des.obj_cache)]))))

des0_read_array_next(c, f) ==
    des0_read_array_loop([c EXCEPT !.heap[f.obj].items = Append(@, c.v)],
                         [f EXCEPT !.i = @ + 1])

des0_read_time(c) ==
    Bind(des_read_double(c), LAMBDA d :
    Bind(NewObj(des_read_uint16(d), Obj("time", << >>, << >>, << >>, d.s)), LAMBDA o :
        Return(o, VRef(o.n))))

des0_enter(c) ==
    IF c.err # "none" THEN c
    ELSE [c EXCEPT !.des.obj_cache = IF c.des.depth = 0 THEN << >> ELSE @,
                   !.des.depth = @ + 1]

des0_switch(c, type) ==
    IF c.err # "none" THEN c
    ELSE IF type = AMF0_STRING_MARKER
    THEN Bind(des_read_uint16(c), LAMBDA n :
         Bind(des_read_string(n, n.n), LAMBDA r : Return(r, VStr(r.s))))
    ELSE IF type = AMF0_AMF3_MARKER THEN des0_read_amf3(c)
    ELSE IF type = AMF0_NUMBER_MARKER
    THEN Bind(des_read_double(c), LAMBDA r : Return(r, VFloat(r.s)))
    ELSE IF type = AMF0_BOOLEAN_MARKER
    THEN Bind(des_read_byte(c), LAMBDA r : Return(r, VBool(r.n # 0)))
    ELSE IF type \in { AMF0_NULL_MARKER, AMF0_UNDEFINED_MARKER, AMF0_UNSUPPORTED_MARKER }
    THEN Return(c, VNil)
    ELSE IF type = AMF0_OBJECT_MARKER THEN des0_read_object(c)
    ELSE IF type = AMF0_TYPED_OBJECT_MARKER THEN des0_read_typed_object(c)
    ELSE IF type = AMF0_HASH_MARKER THEN des0_read_hash(c)
    ELSE IF type = AMF0_STRICT_ARRAY_MARKER THEN des0_read_array(c)
    ELSE IF type = AMF0_REFERENCE_MARKER
    THEN Bind(des_read_uint16(c), LAMBDA n :
             cache_ref(n, "obj", n.des.obj_cache, n.n))
    ELSE IF type = AMF0_DATE_MARKER THEN des0_read_time(c)
    ELSE IF type \in { AMF0_XML_MARKER, AMF0_LONG_STRING_MARKER }
    THEN Bind(des_read_uint32(c), LAMBDA n :
         Bind(des_read_string(n, n.n), LAMBDA r : Return(r, VStr(r.s))))
    ELSE Raise(c, "RuntimeError")

des0_deserialize(c, type) == des_leave(des0_switch(des0_enter(c), type))

---------------------------------------------------------------------------
(* The entry points of the deserializer (deserializer.c:183-224, 434-440,
   734-741) *)

\* des_set_src for a String source: a StringIO is made to wrap it
des_set_src(c, s) ==
    Bind([c EXCEPT !.des.stream = s, !.des.pos = 0, !.des.size = Len(s),
                   !.des.src_set = TRUE, !.des.src_pos = 0], LAMBDA d :
        IF d.des.pos >= d.des.size THEN Raise(d, "RangeError") ELSE d)

\* des_check_deserialize_args with the source given as argument
des_check_deserialize_args(c, s) ==
    IF c.des.depth = 0 THEN des_set_src(c, s)
    ELSE Raise(c, "ArgumentError")

\* rb_funcall(des->src, rb_intern("pos="), 1, LONG2NUM(des->pos))
des_update_src_pos(c) ==
    IF c.err # "none" \/ c.pending THEN c
    ELSE [c EXCEPT !.des.src_pos = c.des.pos]

des3_deserialize_rb(c, s) ==
    des_update_src_pos(des3_deserialize(des_check_deserialize_args(c, s)))

\* des0_deserialize_rb takes argc and argv but never looks at them: the
\* struct is read as des_alloc left it
des0_deserialize_rb(c, s) ==
    Bind(des_read_byte(c), LAMBDA t : des_update_src_pos(des0_deserialize(t, t.n)))

\* The C interface of the AMF0 deserializer, as the other compilation units
\* of the extension use it: des_set_src, then des0_deserialize with the type
\* byte read by the caller
des0_deserialize_c(c, s) ==
    Bind(des_read_byte(des_set_src(c, s)), LAMBDA t : des0_deserialize(t, t.n))

---------------------------------------------------------------------------
(* The deserializer as a machine: one action per entry point, one per nested
   deserialize call and one per return into a suspended function *)

\* what an out-of-bounds array read does in a run
UBOutcomes == { "crash", "garbage" }

\* des0_read_amf3 is on the stack: the running code works on its struct
InEsc(fs) == \E i \in 1 .. Len(fs) : fs[i].k = "des0_read_amf3"

\* the context of the function on top of the stack, with that frame taken off
Context(ub) ==
    [CtxFull(IF InEsc(frames) THEN amf3_des ELSE des,
             IF InEsc(frames) THEN des ELSE amf3_des,
             InEsc(frames), heap, Front(frames), mem, ub) EXCEPT !.v = ret]

\* the state a step leaves: an exception unwinds the whole stack (depth stays
\* as it is); when the outermost function returns, the entry point returns
\* (and a deserialize method sets the position of the source)
CommitCtx(c0, entry) ==
    LET fin == c0.err = "none" /\ c0.frames = << >>
        c == IF fin /\ entry \in { "des3_deserialize_rb", "des0_deserialize_rb" }
             THEN des_update_src_pos(c0) ELSE c0
    IN  /\ des' = IF c.esc THEN c.other ELSE c.des
        /\ amf3_des' = IF c.esc THEN c.des ELSE c.other
        /\ heap' = c.heap
        /\ frames' = IF c.err # "none" THEN << >> ELSE c.frames
        /\ err' = c.err
        /\ mem' = c.mem
        /\ ret' = IF c.err # "none" \/ c.pending THEN VNil ELSE c.v
        /\ call' = entry
        /\ UNCHANGED serVars

\* a step of a call that goes on with the source it was given
Commit(c0, entry) == CommitCtx(c0, entry) /\ UNCHANGED << num, host, src >>

Idle == call = "none" /\ src # << >> /\ frames = << >> /\ err = "none"

\* the top-level call has returned or raised
Finished == call # "none" /\ frames = << >>

Des3DeserializeRb ==
    /\ Idle
    /\ \E ub \in UBOutcomes :
         Commit(des3_deserialize_rb(CtxFull(des, amf3_des, FALSE, heap, << >>, mem, ub),
                                    src),
                "des3_deserialize_rb")

Des0DeserializeRb ==
    /\ Idle
    /\ \E ub \in UBOutcomes :
         Commit(des0_deserialize_rb(CtxFull(des, amf3_des, FALSE, heap, << >>, mem, ub),
                                    src),
                "des0_deserialize_rb")

Des0DeserializeC ==
    /\ Idle
    /\ \E ub \in UBOutcomes :
         Commit(des0_deserialize_c(CtxFull(des, amf3_des, FALSE, heap, << >>, mem, ub),
                                   src),
                "des0_deserialize")

Running(k) == err = "none" /\ frames # << >> /\ Last(frames).k = k

\* a nested call of des3_deserialize
Des3Deserialize ==
    /\ Running("des3_deserialize")
    /\ \E ub \in UBOutcomes : Commit(des3_deserialize(Context(ub)), call)

\* a nested call of des0_deserialize
Des0Deserialize ==
    /\ Running("des0_deserialize")
    /\ \E ub \in UBOutcomes :
         Commit(des0_deserialize(Context(ub), Last(frames).type), call)

\* the returns into the suspended functions; each ends with the des->depth--
\* of the deserialize call that had called the function
Des3ReadArrayNext ==
    /\ Running("des3_read_array")
    /\ \E ub \in UBOutcomes :
         Commit(des_leave(des3_read_array_next(Context(ub), Last(frames))), call)

Des3ReadObjectNext ==
    /\ Running("des3_read_object")
    /\ \E ub \in UBOutcomes :
         Commit(des_leave(des3_read_object_next(Context(ub), Last(frames))), call)

Des3ReadDictNext ==
    /\ Running("des3_read_dict")
    /\ \E ub \in UBOutcomes :
         Commit(des_leave(des3_read_dict_next(Context(ub), Last(frames))), call)

Des0ReadAmf3Next ==
    /\ Running("des0_read_amf3")
    /\ \E ub \in UBOutcomes :
         Commit(des_leave(des0_read_amf3_next(Context(ub), Last(frames))), call)

Des0ReadPropsNext ==
    /\ Running("des0_read_props")
    /\ \E ub \in UBOutcomes :
         Commit(des_leave(des0_read_props_next(Context(ub), Last(frames))), call)

Des0ReadArrayNext ==
    /\ Running("des0_read_array")
    /\ \E ub \in UBOutcomes :
         Commit(des_leave(des0_read_array_next(Context(ub), Last(frames))), call)

---------------------------------------------------------------------------
(* The sources given to the deserializers *)

\* the class-name string of an ArrayCollection: U29 header (33 << 1) | 1
ArrayCollectionTraits == << 10, 7, 67 >> \o ArrayCollectionName

\* one complete AMF3 value each
ValidAMF3 ==
    { << 4, 1 >>,                                   \* 1
      << 4, 255, 255, 255, 255 >>,                  \* -1
      << 5, 64, 12, 0, 0, 0, 0, 0, 0 >>,            \* 3.5
      << 6, 3, 97 >>,                               \* "a"
      << 9, 5, 1, 6, 3, 97, 6, 0 >>,                \* ["a", "a"], the second by reference
      << 9, 3, 1, 9, 0 >>,                          \* an array holding itself
      << 9, 1, 3, 97, 4, 1, 1 >>,                   \* associative array {"a" => 1}
      << 9, 3, 3, 97, 4, 1, 1, 4, 2 >>,             \* {"a" => 1, "0" => 2}
      << 10, 11, 1, 3, 97, 4, 1, 1 >>,              \* anonymous dynamic object {a: 1}
      << 10, 11, 1, 3, 97, 10, 0, 1 >>,             \* a dynamic object holding itself
      << 10, 19, 3, 65, 3, 120, 4, 1 >>,            \* A with the sealed member x = 1
      << 9, 5, 1, 10, 19, 3, 65, 3, 120, 4, 1, 10, 1, 4, 2 >>,  \* [A, A] by trait reference
      << 10, 19, 3, 84, 5, 97, 66, 4, 1 >>,         \* T (translate_case), aB = 1
      << 10, 7, 3, 69, 4, 1 >>,                     \* externalizable E, payload 1
      << 17, 3, 0, 4, 1, 4, 2 >>,                   \* dictionary {1 => 2}
      << 17, 3, 0, 4, 1, 17, 0 >>,                  \* a dictionary holding itself
      << 8, 1, 66, 112, 0, 0, 0, 0, 0, 0 >>,        \* a date
      << 12, 3, 97 >>,                              \* byte array "a"
      << 11, 3, 97 >>,                              \* XML "a"
      << 9, 7, 1 >> \o ArrayCollectionTraits \o << 9, 5, 1, 4, 1, 4, 2 >>
          \o << 9, 2, 9, 4 >>,                      \* [ArrayCollection[1, 2], ref 1, ref 2]
      << 9, 7, 1 >> \o ArrayCollectionTraits \o << 9, 3, 1, 9, 1, 1 >>
          \o << 9, 2, 9, 4 >> }                     \* [ArrayCollection[[]], ref 1, ref 2]

\* one complete AMF0 value each
ValidAMF0 ==
    { << 0, 64, 12, 0, 0, 0, 0, 0, 0 >>,            \* 3.5
      << 1, 1 >>,                                   \* true
      << 2, 0, 1, 97 >>,                            \* "a"
      << 12, 0, 0, 0, 1, 97 >>,                     \* long string "a"
      << 10, 0, 0, 0, 1, 7, 0, 0 >>,                \* an array holding itself
      << 3, 0, 1, 97, 5, 0, 0, 9 >>,                \* {a: nil}
      << 3, 0, 1, 97, 7, 0, 0, 0, 0, 9 >>,          \* an object holding itself
      << 8, 0, 0, 0, 1, 0, 1, 97, 1, 0, 0, 0, 9 >>, \* hash {"a" => false}
      << 16, 0, 1, 65, 0, 1, 120, 5, 0, 0, 9 >>,    \* A with x = nil
      << 16, 0, 1, 84, 0, 2, 97, 66, 5, 0, 0, 9 >>, \* T (translate_case), aB = nil
      << 11, 66, 112, 0, 0, 0, 0, 0, 0, 0, 0 >>,    \* a date
      << 17, 4, 1 >>,                               \* the AMF3 integer 1
      << 10, 0, 0, 0, 2, 17, 9, 1, 1, 17, 4, 1 >> } \* [AMF3 [], AMF3 1]

\* references whose index is outside the table
BadReferences ==
    { << 6, 255, 255, 255, 254 >>,                  \* AMF3 string reference -1
      << 9, 255, 255, 255, 254 >>,                  \* AMF3 object reference -1
      << 10, 255, 255, 255, 253 >>,                 \* AMF3 trait reference -1
      << 6, 2 >>, << 9, 2 >>, << 10, 5 >>,          \* AMF3 references 1, 1, 1
      << 7, 255, 255 >>, << 7, 0, 0 >> }            \* AMF0 references 65535, 0

\* AMF0 objects whose key of length 0 is followed by a byte other than the
\* OBJECT-END marker
WrongObjectEnd ==
    { << 3, 0, 0, 0 >>,                             \* object, then 00
      << 3, 0, 0, 5 >>,                             \* object, then 05
      << 3, 0, 1, 97, 5, 0, 0, 2 >>,                \* {a: nil}, then 02
      << 8, 0, 0, 0, 0, 0, 0, 3 >>,                 \* hash, then 03
      << 16, 0, 1, 65, 0, 0, 10 >> }                \* A, then 0A

\* AMF3 values of length zero, and an XML document
EmptyAMF3 ==
    { << 6, 1 >>,                                   \* ""
      << 9, 1, 1 >>,                                \* []
      << 10, 11, 1, 1 >>,                           \* {}
      << 12, 1 >>,                                  \* byte array ""
      << 11, 1 >>,                                  \* XML ""
      << 7, 1 >>,                                   \* XML document ""
      << 7, 3, 97 >>,                               \* XML document "a"
      << 17, 1, 0 >>,                               \* dictionary {}
      << 9, 5, 1, 11, 1, 11, 3, 97 >> }             \* [XML "", XML "a"]

\* lengths and counts that are negative or larger than what is left
BadLengths ==
    { << 6, 255, 255, 255, 255 >>,                  \* AMF3 string of length -1
      << 6, 255, 255, 255, 255, 97 >>,
      << 12, 255, 255, 255, 255, 97 >>,             \* AMF3 byte array of length -1
      << 11, 255, 255, 255, 253, 97 >>,             \* AMF3 XML of length -2
      << 9, 255, 255, 255, 255, 1, 4, 1 >>,         \* AMF3 array of -1 elements
      << 17, 255, 255, 255, 255, 0, 4, 1 >>,        \* AMF3 dictionary of -1 pairs
      << 10, 255, 255, 255, 255, 1, 4, 1 >>,        \* AMF3 traits with -1 members
      << 9, 3, 255, 255, 255, 255, 97 >>,           \* AMF3 array key of length -1
      << 6, 127, 97 >>,                             \* AMF3 string of length 63
      << 9, 127, 1, 4, 1 >>,                        \* AMF3 array of 63 elements
      << 12, 128, 0, 0, 0, 97 >>,                   \* AMF0 long string, b0 = 0x80
      << 12, 255, 255, 255, 255, 97 >>,             \* AMF0 long string, all bits set
      << 12, 0, 0, 0, 9, 97 >>,                     \* AMF0 long string of length 9
      << 2, 0, 9, 97 >>,                            \* AMF0 string of length 9
      << 10, 255, 255, 255, 255, 5 >>,              \* AMF0 array, all bits set
      << 10, 0, 0, 0, 9, 5 >>,                      \* AMF0 array of 9 elements
      << 8, 255, 255, 255, 255, 0, 0, 9 >>,         \* AMF0 hash, all bits set
      << 3, 0, 9, 97 >>,                            \* AMF0 key of length 9
      << 17, 6, 255, 255, 255, 255, 97 >> }         \* AMF3 string of length -1, escaped

Truncated(S) == UNION { StrictPrefixes(s) : s \in S }

FuzzBytes == { 0, 1, 6, 9, 10, 255 }

DesInputs ==
    ValidAMF3 \cup ValidAMF0 \cup Truncated(ValidAMF3) \cup Truncated(ValidAMF0)
        \cup BadReferences \cup WrongObjectEnd \cup EmptyAMF3 \cup BadLengths
        \cup SeqUpTo(FuzzBytes, MaxFuzzLen)

\* no object graph is given to the serializer
NoHost == [root |-> VNil, heap |-> << >>, opts |-> VNil]

InitDes ==
    /\ src \in DesInputs
    /\ ser = ser_alloc
    /\ ser_ret = VNil
    /\ des = des_alloc
    /\ amf3_des = des_alloc
    /\ heap = << >>
    /\ frames = << >>
    /\ ret = VNil
    /\ err = "none"
    /\ mem = mem_init
    /\ num = 0
    /\ host = NoHost
    /\ call = "none"

NextDes ==
    \/ Des3DeserializeRb
    \/ Des0DeserializeRb
    \/ Des0DeserializeC
    \/ Des3Deserialize
    \/ Des0Deserialize
    \/ Des3ReadArrayNext
    \/ Des3ReadObjectNext
    \/ Des3ReadDictNext
    \/ Des0ReadAmf3Next
    \/ Des0ReadPropsNext
    \/ Des0ReadArrayNext

SpecDes == InitDes /\ [][NextDes]_vars

---------------------------------------------------------------------------
(* A deserializer used again: when its deserialize has returned a value, it
   is called with a new source *)

\* sources of a later call: back-references with index 0 into each table,
\* values that enter nothing in a table, and arrays ([reference 1], [[1]])
StrRefs == { << 6, 0 >> }
ObjRefs == { << 9, 0 >>, << 10, 0 >>, << 8, 0 >>, << 12, 0 >>, << 11, 0 >>, << 17, 0 >> }
TraitRefs == { << 10, 1 >> }
AMF0Refs == { << 7, 0, 0 >> }
Scalars3 == { << 4, 1 >>, << 1 >> }
Scalars0 == { << 1, 1 >>, << 5 >> }
AgainAMF3 ==
    StrRefs \cup ObjRefs \cup TraitRefs \cup Scalars3
        \cup { << 9, 3, 1, 9, 2 >>, << 9, 3, 1, 9, 3, 1, 4, 1 >> }
AgainAMF0 == AMF0Refs \cup Scalars0 \cup { << 10, 0, 0, 0, 1, 7, 0, 1 >> }

InitAgain ==
    /\ src \in ValidAMF3 \cup ValidAMF0
    /\ ser = ser_alloc
    /\ ser_ret = VNil
    /\ des = des_alloc
    /\ amf3_des = des_alloc
    /\ heap = << >>
    /\ frames = << >>
    /\ ret = VNil
    /\ err = "none"
    /\ mem = mem_init
    /\ num = 0
    /\ host = NoHost
    /\ call = "none"

\* the caller keeps the value the call before returned
Returned(e) == Finished /\ err = "none" /\ call = e /\ num < MaxCalls - 1

Des3DeserializeRbAgain ==
    /\ Returned("des3_deserialize_rb")
    /\ \E s \in AgainAMF3, ub \in UBOutcomes :
         /\ CommitCtx(des3_deserialize_rb(
                          CtxFull(des, amf3_des, FALSE, heap, << >>, mem_init, ub), s),
                      call)
         /\ src' = s
    /\ num' = num + 1
    /\ host' = [root |-> ret, heap |-> heap, opts |-> VNil]

Des0DeserializeCAgain ==
    /\ Returned("des0_deserialize")
    /\ \E s \in AgainAMF0, ub \in UBOutcomes :
         /\ CommitCtx(des0_deserialize_c(
                          CtxFull(des, amf3_des, FALSE, heap, << >>, mem_init, ub), s),
                      call)
         /\ src' = s
    /\ num' = num + 1
    /\ host' = [root |-> ret, heap |-> heap, opts |-> VNil]

NextAgain ==
    \/ Des3DeserializeRb
    \/ Des0DeserializeRb
    \/ Des0DeserializeC
    \/ Des3Deserialize
    \/ Des0Deserialize
    \/ Des3ReadArrayNext
    \/ Des3ReadObjectNext
    \/ Des3ReadDictNext
    \/ Des0ReadAmf3Next
    \/ Des0ReadPropsNext
    \/ Des0ReadArrayNext
    \/ Des3DeserializeRbAgain
    \/ Des0DeserializeCAgain

SpecAgain == InitAgain /\ [][NextAgain]_vars

\* the objects a table holds were all made after the last call returned
Fresh(cache) ==
    \A i \in 1 .. Len(cache) : cache[i].t = "ref" => cache[i].id > Len(host.heap)

\* C14: the top-level decode that follows one that returned a value starts
\* with empty object, string and trait tables.  A back-reference with index 0
\* at the start of the second source is out of range, whatever the first call
\* left in the table; a value that enters nothing leaves the tables empty;
\* and at any point of a later call the object table holds only objects made
\* during that call, so that no reference resolves to an earlier one.
C14_TablesStartEmpty ==
    [][ /\ num' = num + 1
            => /\ (src' \in StrRefs /\ des.str_cache # << >>) => err' = "RangeError"
               /\ (src' \in ObjRefs /\ des.obj_cache # << >>) => err' = "RangeError"
               /\ (src' \in TraitRefs /\ des.trait_cache # << >>) => err' = "RangeError"
               /\ (src' \in AMF0Refs /\ des.obj_cache # << >>) => err' = "RangeError"
               /\ src' \in Scalars3 \cup Scalars0
                      => /\ err' = "none"
                         /\ des'.obj_cache = << >>
                         /\ des'.str_cache = << >>
                         /\ des'.trait_cache = << >>
        /\ num' > 0 => Fresh(des'.obj_cache) ]_vars

\* a second call met a reference to index 0 of a table the first call filled
C14_Witness ==
    /\ num = 1
    /\ Finished
    /\ host.heap # << >>
    /\ src \in ObjRefs \cup AMF0Refs
    /\ err = "RangeError"

---------------------------------------------------------------------------
(* The integer codec on its own: ser_write_int followed by des_read_int *)

\* The ints the serializer passes to ser_write_int: the integers of
\* ser3_serialize, which lie in MIN_INTEGER .. MAX_INTEGER, and the headers
\* built from lengths, counts and indices, which are any int >= 0.
U29Points ==
    { 2, 128, 16384, 2097152, 268435456, 536870912, 1073741824,
      -3, -128, -16384, -2097152, -268435456 }

U29Inputs ==
    { n \in { p + d : p \in U29Points, d \in (-U29Spread) .. U29Spread } :
        n >= MIN_INTEGER } \cup { 2147483647 }

\* what follows the integer in the source the reader is given
U29Tails == { << >>, << 0 >>, << 255 >> }

InitU29 ==
    /\ num \in U29Inputs
    /\ ser = ser_alloc
    /\ ser_ret = VNil
    /\ des = des_alloc
    /\ amf3_des = des_alloc
    /\ heap = << >>
    /\ frames = << >>
    /\ ret = VNil
    /\ err = "none"
    /\ mem = mem_init
    /\ host = NoHost
    /\ src = << >>
    /\ call = "none"

SerWriteInt ==
    /\ ser.stream = << >>
    /\ ser.err = "none"
    /\ ser' = ser_write_int(ser, num)
    /\ UNCHANGED << ser_ret, desVars, num, host, src >>

DesReadInt ==
    /\ ser.stream # << >>
    /\ src = << >>
    /\ \E tail \in U29Tails :
         LET s == ser.stream \o tail
             c == des_read_int(Ctx([des EXCEPT !.stream = s, !.size = Len(s)],
                                   heap, mem))
         IN  /\ src' = s
             /\ des' = c.des
             /\ err' = c.err
             /\ mem' = c.mem
             /\ ret' = VInt(c.n)
    /\ UNCHANGED << serVars, amf3_des, heap, frames, num, host, call >>

NextU29 == SerWriteInt \/ DesReadInt

SpecU29 == InitU29 /\ [][NextU29]_vars

\* the 29-bit masked value of the input
U29Masked == LowBits(num, 29)

\* the number of bytes of the shortest U29 form of m
U29Width(m) ==
    IF m < 128 THEN 1 ELSE IF m < 16384 THEN 2 ELSE IF m < 2097152 THEN 3 ELSE 4

\* C6: for every n in [-2^28, 2^28 - 1], des_read_int applied to the bytes
\* ser_write_int wrote for n returns n and consumes exactly those bytes
\* (whatever follows them in the source).
C6_U29RoundTrip ==
    (src # << >> /\ num >= MIN_INTEGER /\ num <= MAX_INTEGER)
        => /\ err = "none"
           /\ ret = VInt(num)
           /\ des.pos = Len(ser.stream)

C6_Witness ==
    /\ src # << >>
    /\ num = -268435456
    /\ Len(ser.stream) = 4
    /\ Len(src) = 5
    /\ ret = VInt(num)

\* C7: ser_write_int writes the shortest form of the masked value m: 1, 2, 3
\* or 4 bytes as m < 2^7, 2^14, 2^21 or not; every byte before the last has
\* its high bit set; the last byte carries 8 value bits in the 4-byte form
\* and 7 in the others.
C7_ShortestForm ==
    ser.stream # << >>
        => LET w == Len(ser.stream)
           IN  /\ w = U29Width(U29Masked)
               /\ (num < 0 => w = 4)
               /\ \A i \in 1 .. w - 1 : ser.stream[i] >= 128
               /\ IF w = 4 THEN ser.stream[4] = U29Masked % 256
                  ELSE ser.stream[w] = U29Masked % 128

C7_Witness ==
    /\ num = 16384
    /\ Len(ser.stream) = 3

\* C8: for every input that does not fit the 29-bit encoding, ser_write_int
\* raises a range error and writes no byte.
C8_OutOfRangeRaises ==
    (num > 536870911 \/ num < MIN_INTEGER) => ser.stream = << >>

---------------------------------------------------------------------------
(* The AMF3 round trip: AMF3Serializer#serialize on a new serializer, then
   AMF3Deserializer#deserialize of the string it returned on a new
   deserializer *)

\* the object representation of the double 3.5
Double35 == Reverse8(<< 64, 12, 0, 0, 0, 0, 0, 0 >>)

\* The objects given to the serializer: 1 the root array, 2 the hash {a: 1},
\* 3 and 4 two objects of class A, 5 a StringIO holding "a", 6 a Time one
\* second after the epoch
HostHeap(items) ==
    << Obj("array", << >>, items, << >>, << >>),
       Obj("hash", << >>, << >>, << << VSym(<< 97 >>), VInt(1) >> >>, << >>),
       Obj("object", << 65 >>, << >>, << << VSym(<< 120 >>), VInt(1) >> >>, << >>),
       Obj("object", << 65 >>, << >>, << << VSym(<< 120 >>), VInt(2) >> >>, << >>),
       Obj("bytes", << >>, << >>, << >>, << 97 >>),
       Obj("time", << >>, << >>, << >>, 1000000) >>

\* what the root array holds: immediates, the objects, the root itself
\* (the strings "a", "", "a\0b" and "\0a")
HostElements ==
    { VNil, VInt(1), VFloat(Double35), VStr(<< 97 >>),
      VStr(<< >>), VStr(<< 97, 0, 98 >>), VStr(<< 0, 97 >>),
      VRef(1), VRef(2), VRef(3), VRef(4), VRef(5), VRef(6) }

HostGraphs ==
    { [root |-> VRef(1), heap |-> HostHeap(items), opts |-> VNil] :
          items \in SeqUpTo(HostElements, MaxItems) }

InitRT ==
    /\ host \in HostGraphs
    /\ src = << >>
    /\ ser = ser_alloc
    /\ ser_ret = VNil
    /\ des = des_alloc
    /\ amf3_des = des_alloc
    /\ heap = << >>
    /\ frames = << >>
    /\ ret = VNil
    /\ err = "none"
    /\ mem = mem_init
    /\ num = 0
    /\ call = "none"

\* AMF3Serializer#serialize(host.root, host.opts); the string it returns is
\* the source the deserializer will be given
Ser3Serialize ==
    /\ src = << >>
    /\ ser_ret = VNil
    /\ ser.err = "none"
    /\ \E ub \in UBOutcomes :
         Bind(ser3_serialize([ser EXCEPT !.ub = ub], host.heap, host.root, host.opts),
              LAMBDA s :
                  /\ ser' = s
                  /\ ser_ret' = IF s.err = "none" /\ ser.depth # -1 /\ s.depth = -1
                                THEN VStr(s.stream) ELSE VNil
                  /\ src' = IF s.err = "none" /\ ser.depth # -1 /\ s.depth = -1
                            THEN s.stream ELSE << >>)
    /\ UNCHANGED << desVars, num, host >>

NextRT ==
    \/ Ser3Serialize
    \/ Des3DeserializeRb
    \/ Des3Deserialize
    \/ Des3ReadArrayNext
    \/ Des3ReadObjectNext

SpecRT == InitRT /\ [][NextRT]_vars

\* An object graph up to the names of its objects: the objects reachable
\* from root are numbered in the order a depth-first walk meets them
RECURSIVE Visit(_, _, _)
RECURSIVE VisitAll(_, _, _)
Children(o) ==
    o.items \o [i \in 1 .. Len(o.props) |-> o.props[i][1]]
            \o [i \in 1 .. Len(o.props) |-> o.props[i][2]]

Visit(v, hp, order) ==
    IF v.t # "ref" THEN order
    ELSE IF \E i \in 1 .. Len(order) : order[i] = v.id THEN order
    ELSE VisitAll(Children(hp[v.id]), hp, Append(order, v.id))

VisitAll(vs, hp, order) ==
    IF vs = << >> THEN order
    ELSE VisitAll(Tail(vs), hp, Visit(Head(vs), hp, order))

CanonVal(v, order) ==
    IF v.t = "ref" THEN VRef(CHOOSE i \in 1 .. Len(order) : order[i] = v.id)
    ELSE IF v.t \in { "str", "sym" } THEN VStr(v.s)
    ELSE v

CanonObj(o, order) ==
    [ k |-> o.k, cls |-> o.cls,
      items |-> [i \in 1 .. Len(o.items) |-> CanonVal(o.items[i], order)],
      props |-> [i \in 1 .. Len(o.props) |->
                    << CanonVal(o.props[i][1], order), CanonVal(o.props[i][2], order) >>],
      data |-> o.data ]

Canon(root, hp) ==
    Bind(Visit(root, hp, << >>), LAMBDA order :
        [ root |-> CanonVal(root, order),
          heap |-> [i \in 1 .. Len(order) |-> CanonObj(hp[order[i]], order)] ])

\* the value the host graph is on the deserializer's side: a Time is the
\* double of its milliseconds
HostValue(o) ==
    IF o.k = "time" THEN [o EXCEPT !.data = DoubleOfInt(o.data \div 1000)] ELSE o

\* C1: when the deserializer has returned from the string the serializer
\* returned for a value, it has raised nothing and its result is equal to
\* the value: the same immediates, and objects of the same kinds, classes,
\* contents and sharing.
C1_RoundTrip ==
    (Finished /\ call = "des3_deserialize_rb" /\ ser_ret # VNil)
        => /\ err = "none"
           /\ Canon(ret, heap)
                  = Canon(host.root, [i \in 1 .. Len(host.heap) |-> HostValue(host.heap[i])])

---------------------------------------------------------------------------
(* camelcase_str on the keys over a letter, a capital, a digit and the
   underscore *)

KeyChars == { 97, 66, 49, 95 }

InitCamel ==
    /\ host \in { [root |-> VStr(key), heap |-> << >>, opts |-> SerializeOpts(TRUE)] :
                      key \in SeqUpTo(KeyChars, MaxKeyLen) }
    /\ ser = ser_alloc
    /\ ser_ret = VNil
    /\ num = 0
    /\ src = << >>
    /\ des = des_alloc
    /\ amf3_des = des_alloc
    /\ heap = << >>
    /\ frames = << >>
    /\ ret = VNil
    /\ err = "none"
    /\ mem = mem_init
    /\ call = "none"

\* key = camelcase_str(key)
CamelcaseStr ==
    /\ ser.tmp = VNil
    /\ ser.err = "none"
    /\ \E ub \in UBOutcomes : ser' = camelcase_str([ser EXCEPT !.ub = ub], host.root)
    /\ UNCHANGED << ser_ret, desVars, num, host, src >>

NextCamel == CamelcaseStr

SpecCamel == InitCamel /\ [][NextCamel]_vars

IsLetter(c) == (c >= 97 /\ c <= 122) \/ (c >= 65 /\ c <= 90)

UpperCase(c) == IF c >= 97 /\ c <= 122 THEN c - 32 ELSE c

\* k with each underscore that a letter follows replaced, together with the
\* letter, by the letter in upper case
RECURSIVE CamelCase(_)
CamelCase(k) ==
    IF k = << >> THEN << >>
    ELSE IF Len(k) >= 2 /\ k[1] = 95 /\ IsLetter(k[2])
    THEN << UpperCase(k[2]) >> \o CamelCase(SubSeq(k, 3, Len(k)))
    ELSE << k[1] >> \o CamelCase(Tail(k))

\* C16: the string camelcase_str returns for a key is the key with each
\* underscore that is immediately followed by a letter replaced, together
\* with the letter, by the letter in upper case, every other character
\* (an underscore before a digit or another underscore, a last underscore)
\* being kept.
C16_CamelcaseStr ==
    (ser.tmp # VNil /\ host.heap = << >>) => ser.tmp = VStr(CamelCase(host.root.s))

---------------------------------------------------------------------------
(* Serializer sessions: serialize calls, one after the other, on one
   Serializer or AMF3Serializer *)

\* The objects given to a session: 1 the root array, 2 the hash
\* {a_b: 1, c_d: {e_f: 2}}, 3 the hash {e_f: 2}, 4 an object of class A with
\* the property x_y, 5 an array holding the root and itself, 6 a hash
\* holding itself
SessionHeap(items) ==
    << Obj("array", << >>, items, << >>, << >>),
       Obj("hash", << >>, << >>,
           << << VSym(<< 97, 95, 98 >>), VInt(1) >>,
              << VSym(<< 99, 95, 100 >>), VRef(3) >> >>, << >>),
       Obj("hash", << >>, << >>, << << VSym(<< 101, 95, 102 >>), VInt(2) >> >>, << >>),
       Obj("object", << 65 >>, << >>, << << VSym(<< 120, 95, 121 >>), VInt(1) >> >>,
           << >>),
       Obj("array", << >>, << VRef(1), VRef(5) >>, << >>, << >>),
       Obj("hash", << >>, << >>, << << VSym(<< 103 >>), VRef(6) >> >>, << >>) >>

SessionElements ==
    { VInt(1), VStr(<< 97 >>), VRef(1), VRef(2), VRef(3), VRef(4), VRef(5), VRef(6) }

\* the value serialized is the array, or one of the records by itself
SessionGraphs ==
    { [root |-> VRef(1), heap |-> SessionHeap(items), opts |-> opts] :
          items \in SeqUpTo(SessionElements, MaxRecords),
          opts \in { VNil, SerializeOpts(TRUE) } }
    \cup { [root |-> r, heap |-> SessionHeap(<< >>), opts |-> opts] :
          r \in { VRef(2), VRef(3), VRef(4) },
          opts \in { VNil, SerializeOpts(TRUE) } }

InitSer ==
    /\ host \in SessionGraphs
    /\ ser \in { ser0_alloc, ser_alloc }
    /\ ser_ret = VNil
    /\ num = 0
    /\ src = << >>
    /\ des = des_alloc
    /\ amf3_des = des_alloc
    /\ heap = << >>
    /\ frames = << >>
    /\ ret = VNil
    /\ err = "none"
    /\ mem = mem_init
    /\ call = "none"

\* what a serialize call that left the struct s returns: the stream when the
\* call was made at depth 0, else nil
SerializeReturn(s) ==
    IF s.err = "none" /\ ser.depth # -1 /\ s.depth = -1 THEN VStr(s.stream) ELSE VNil

\* the values the calls of a session are given: the root first, then the
\* root again or a string
SessionValues == IF num = 0 THEN { host.root } ELSE { host.root, VStr(<< 97 >>) }

\* RocketAMF::Ext::AMF3Serializer#serialize(v, host.opts)
AMF3SerializerSerialize ==
    /\ ser.klass = "AMF3Serializer"
    /\ ser.err = "none"
    /\ num < MaxCalls
    /\ \E ub \in UBOutcomes, v \in SessionValues :
         Bind(ser3_serialize([ser EXCEPT !.ub = ub], host.heap, v, host.opts),
              LAMBDA s : ser' = s /\ ser_ret' = SerializeReturn(s))
    /\ num' = num + 1
    /\ UNCHANGED << desVars, host, src >>

\* RocketAMF::Ext::Serializer#serialize(v, host.opts)
SerializerSerialize ==
    /\ ser.klass = "Serializer"
    /\ ser.err = "none"
    /\ num < MaxCalls
    /\ \E ub \in UBOutcomes, v \in SessionValues :
         Bind(ser0_serialize([ser EXCEPT !.ub = ub], host.heap, v, host.opts),
              LAMBDA s : ser' = s /\ ser_ret' = SerializeReturn(s))
    /\ num' = num + 1
    /\ UNCHANGED << desVars, host, src >>

NextSer == AMF3SerializerSerialize \/ SerializerSerialize

SpecSer == InitSer /\ [][NextSer]_vars

\* C13: a serialize call that has returned its bytes leaves the serializer
\* at depth -1, and every serialize call made on a serializer at depth -1
\* returns nil and leaves it at depth -1 with the stream, its recorded size
\* and the three caches and their next indices as they were.
C13_FinalizedForever ==
    [][ /\ ser_ret' # VNil => ser'.depth = -1
        /\ (ser.depth = -1 /\ num' = num + 1)
               => /\ ser_ret' = VNil
                  /\ ser'.depth = -1
                  /\ ser'.stream = ser.stream
                  /\ ser'.size = ser.size
                  /\ ser'.obj_cache = ser.obj_cache /\ ser'.obj_index = ser.obj_index
                  /\ ser'.str_cache = ser.str_cache /\ ser'.str_index = ser.str_index
                  /\ ser'.trait_cache = ser.trait_cache
                  /\ ser'.trait_index = ser.trait_index ]_vars

C13_Witness ==
    /\ num = 2
    /\ ser.depth = -1
    /\ ser.err = "none"
    /\ ser_ret = VNil
    /\ Len(ser.stream) > 3
    /\ ser.trait_index = 1

\* whether the bytes k occur next to each other in the stream st
Occurs(k, st) ==
    \E i \in 1 .. Len(st) - Len(k) + 1 : SubSeq(st, i, i + Len(k) - 1) = k

\* the property keys of the hashes and objects of the graph of root
GraphKeys(root, hp) ==
    Bind(Visit(root, hp, << >>), LAMBDA order :
        UNION { { hp[order[i]].props[j][1].s : j \in 1 .. Len(hp[order[i]].props) } :
                    i \in 1 .. Len(order) })

\* C15: the stream a serialize call with translate_case returns holds, for
\* every property key of every hash and object of the graph serialized
\* (nested in another one or an element of an array as well), the
\* camelCase form of the key and not the key itself.
C15_TranslateCaseEverywhere ==
    (num = 1 /\ ser_ret # VNil /\ translate_case(host.opts))
        => \A k \in GraphKeys(host.root, host.heap) :
               Occurs(CamelCase(k), ser_ret.s) /\ ~Occurs(k, ser_ret.s)

---------------------------------------------------------------------------
(* Properties of the AMF3 string cache (SpecRT) *)

\* the elements of the array given to the serializer
HostItems == host.heap[1].items

\* the serializer has returned the string for the array
Serialized == ser_ret # VNil

\* the strings of a sequence of values that are not empty, each once, in the
\* order of their first occurrence
RECURSIVE FirstStrings(_, _)
FirstStrings(items, seen) ==
    IF items = << >> THEN seen
    ELSE FirstStrings(Tail(items),
             IF Head(items).t = "str" /\ Head(items).s # << >>
                /\ ~ \E i \in 1 .. Len(seen) : seen[i] = Head(items).s
             THEN Append(seen, Head(items).s) ELSE seen)

\* the AMF3 form of a string when the strings of seen have been interned: 01
\* for the empty string, the reference i << 1 for the i-th interned string,
\* else the header len << 1 | 1 and the bytes
StringForm(str, seen) ==
    IF str = << >> THEN << 1 >>
    ELSE IF \E i \in 1 .. Len(seen) : seen[i] = str
    THEN << 2 * ((CHOOSE i \in 1 .. Len(seen) : seen[i] = str) - 1) >>
    ELSE << 2 * Len(str) + 1 >> \o str

\* the AMF3 form of the elements of an array of strings and of byte arrays
\* met for the first time: a byte array is its marker, the header
\* len << 1 | 1 and its bytes, and interns nothing
RECURSIVE ItemsForm(_, _)
ItemsForm(items, seen) ==
    IF items = << >> THEN << >>
    ELSE IF Head(items).t = "str"
    THEN << AMF3_STRING_MARKER >> \o StringForm(Head(items).s, seen)
             \o ItemsForm(Tail(items), FirstStrings(<< Head(items) >>, seen))
    ELSE << AMF3_BYTE_ARRAY_MARKER, 2 * Len(host.heap[Head(items).id].data) + 1 >>
             \o host.heap[Head(items).id].data \o ItemsForm(Tail(items), seen)

\* the AMF3 form of the array itself
ArrayForm(items) ==
    << AMF3_ARRAY_MARKER, 2 * Len(items) + 1, AMF3_CLOSE_DYNAMIC_ARRAY >>
        \o ItemsForm(items, << >>)

\* C11: for an array of strings, the serializer writes the first occurrence
\* of each non-empty string inline (header len << 1 | 1 and the bytes) and
\* gives it the next string index, and writes every later occurrence of the
\* same bytes as the reference header index << 1 alone.
C11_StringsInterned ==
    (Serialized /\ \A i \in 1 .. Len(HostItems) : HostItems[i].t = "str")
        => /\ ser_ret.s = ArrayForm(HostItems)
           /\ ser.str_index = Len(FirstStrings(HostItems, << >>))

\* n times the empty string as an AMF3 value
RECURSIVE EmptyStrings(_)
EmptyStrings(n) ==
    IF n = 0 THEN << >> ELSE << AMF3_STRING_MARKER, AMF3_EMPTY_STRING >> \o EmptyStrings(n - 1)

\* the serializer's string cache holds no entry for the empty string
SerNoEmptyEntry == \A i \in 1 .. Len(ser.str_cache) : ser.str_cache[i][1] # << >>

\* neither does the deserializer's
DesNoEmptyEntry == \A i \in 1 .. Len(des.str_cache) : des.str_cache[i] # VStr(<< >>)

\* C12: no entry of the string cache of the serializer or of the
\* deserializer is the empty string; an array of empty strings is written
\* with the single byte 01 for each of them, and writing and reading it
\* leaves the string caches and the next string index as they were.
C12_EmptyStringNotInterned ==
    /\ SerNoEmptyEntry
    /\ DesNoEmptyEntry
    /\ (Serialized /\ \A i \in 1 .. Len(HostItems) : HostItems[i] = VStr(<< >>))
           => /\ ser_ret.s = << AMF3_ARRAY_MARKER, 2 * Len(HostItems) + 1,
                                AMF3_CLOSE_DYNAMIC_ARRAY >>
                                 \o EmptyStrings(Len(HostItems))
              /\ ser.str_cache = << >>
              /\ ser.str_index = 0
              /\ des.str_cache = << >>

\* the deserializer has returned from the string the serializer returned
RoundTripDone == Finished /\ call = "des3_deserialize_rb" /\ Serialized

\* the hash and the two objects of class A
HostRecords == { VRef(2), VRef(3), VRef(4) }

\* C17: for an array of hashes and objects of a mapped class, every class
\* name in the serializer's trait cache has the index at which the
\* deserializer's trait cache holds the traits of that class once the stream
\* is read, and each element is read back as an object of the class of the
\* element written.
C17_TraitIndicesAgree ==
    (RoundTripDone /\ \A i \in 1 .. Len(HostItems) : HostItems[i] \in HostRecords)
        => /\ err = "none"
           /\ \A j \in 1 .. Len(ser.trait_cache) :
                  /\ ser.trait_cache[j][2] < Len(des.trait_cache)
                  /\ des.trait_cache[ser.trait_cache[j][2] + 1].class_name
                         = ser.trait_cache[j][1]
           /\ ret.t = "ref"
           /\ Len(heap[ret.id].items) = Len(HostItems)
           /\ \A i \in 1 .. Len(HostItems) :
                  /\ heap[ret.id].items[i].t = "ref"
                  /\ heap[heap[ret.id].items[i].id].cls = host.heap[HostItems[i].id].cls

\* the array holds the byte array (object 5) once and, besides it, strings
\* without NUL bytes
OneByteArray ==
    /\ Cardinality({ i \in 1 .. Len(HostItems) : HostItems[i] = VRef(5) }) = 1
    /\ \A i \in 1 .. Len(HostItems) :
           HostItems[i] \in { VRef(5), VStr(<< 97 >>), VStr(<< >>) }

\* C18: a byte array met for the first time is written as the BYTE-ARRAY
\* marker, the header len << 1 | 1 and its bytes, whatever strings were
\* written before it, and the string cache is neither read nor changed for
\* it: the serializer has interned the strings of the array and nothing
\* else, and the deserializer that read the stream has interned the same
\* strings at the same indices.
C18_ByteArrayOutsideStringCache ==
    (Serialized /\ OneByteArray)
        => /\ ser_ret.s = ArrayForm(HostItems)
           /\ ser.str_index = Len(FirstStrings(HostItems, << >>))
           /\ RoundTripDone
                  => /\ err = "none"
                     /\ Len(des.str_cache) = Len(ser.str_cache)
                     /\ \A j \in 1 .. Len(ser.str_cache) :
                            des.str_cache[ser.str_cache[j][2] + 1] = VStr(ser.str_cache[j][1])

---------------------------------------------------------------------------
(* Properties of the AMF3 object cache (SpecDes) *)

\* the struct the running code works on, before and after a step
DesInUse == IF InEsc(frames) THEN amf3_des ELSE des
DesInUseNext == IF InEsc(frames) THEN amf3_des' ELSE des'

\* the bytes from the cursor on
Cursor ==
    IF frames = << >> THEN src
    ELSE SubSeq(DesInUse.stream, DesInUse.pos + 1, Len(DesInUse.stream))

\* the last byte of the U29 that starts at byte 2 of b
HeaderLastByte(b) ==
    IF b[2] < 128 THEN b[2]
    ELSE IF b[3] < 128 THEN b[3]
    ELSE IF b[4] < 128 THEN b[4]
    ELSE b[5]

\* a step that is one call of des3_deserialize, and was not ended by an error
ValueStart ==
    /\ \/ frames = << >> /\ call = "none" /\ call' = "des3_deserialize_rb"
       \/ Running("des3_deserialize") /\ frames' # frames
    /\ err' = "none"

\* the markers whose values go to the object cache
ObjectCacheMarkers ==
    { AMF3_ARRAY_MARKER, AMF3_OBJECT_MARKER, AMF3_DATE_MARKER, AMF3_BYTE_ARRAY_MARKER,
      AMF3_XML_MARKER, AMF3_XML_DOC_MARKER, AMF3_DICT_MARKER }

InlineObject ==
    Cursor[1] \in ObjectCacheMarkers /\ HeaderLastByte(Cursor) % 2 = 1

\* the call read the traits of an ArrayCollection and waits for its array
WrapperStarted ==
    /\ Len(frames') > Len(frames)
    /\ frames'[Len(frames') - 1].st = "array_collection"

Appended == Len(DesInUseNext.obj_cache) - Len(DesInUse.obj_cache)

\* C19: a call of des3_deserialize that reads an inline ARRAY, OBJECT, DATE,
\* BYTE-ARRAY, XML, XML-DOC or DICTIONARY appends exactly one entry to the
\* object cache, whatever the length of the value; the wrapper of an
\* ArrayCollection appends its entry when its array has been read (the array
\* has its own entry: two in all); a call that reads any other value or a
\* back-reference appends none, and neither does the return into an array,
\* object or dictionary.
C19_OneObjectCacheEntry ==
    [][ /\ ValueStart
            => Appended = IF InlineObject /\ ~WrapperStarted THEN 1 ELSE 0
        /\ (Running("des3_read_object") /\ frames' # frames /\ err' = "none")
            => Appended = IF Last(frames).st = "array_collection" THEN 1 ELSE 0
        /\ ((Running("des3_read_array") \/ Running("des3_read_dict"))
                /\ frames' # frames /\ err' = "none")
            => Appended = 0 ]_vars

---------------------------------------------------------------------------
(* Properties of the AMF0 property loop (SpecDes) *)

\* C20: in the property loop of an AMF0 OBJECT, TYPED-OBJECT or HASH the byte
\* after a key length of 0 is checked: the decode of a source whose byte
\* there is not OBJECT-END (0x09) fails.
C20_ObjectEndChecked ==
    (Finished /\ call = "des0_deserialize" /\ src \in WrongObjectEnd) => err # "none"

---------------------------------------------------------------------------
(* Properties of the deserializer machine (SpecDes) *)

\* the struct the function of frame i works on
FrameDes(i) ==
    IF \E j \in 1 .. i - 1 : frames[j].k = "des0_read_amf3" THEN amf3_des ELSE des

\* frame i belongs to a function that builds a container
ContainerFrame(i) ==
    \/ frames[i].k \in { "des0_read_array", "des0_read_props", "des3_read_array",
                         "des3_read_dict" }
    \/ frames[i].k = "des3_read_object" /\ frames[i].st # "array_collection"

\* C2: whenever the deserializer reads one of its tables to resolve a
\* back-reference (AMF0 REFERENCE, AMF3 string, object or trait reference),
\* the index it reads at lies in 0 .. length of the table - 1.
C2_ReferenceInTable ==
    mem.ref_tab # "none" => (0 <= mem.ref_idx /\ mem.ref_idx < mem.ref_len)

\* C3: when the value inside an ArrayCollection wrapper is an inline array
\* (entered in the object cache at k, the next free index when the wrapper
\* was met), des3_read_object returns that array, and afterwards the wire
\* index of the wrapper (k) and the wire index of its inner array (k + 1)
\* both hold that array.
C3_ArrayCollectionIndices ==
    [][ ( /\ Running("des3_read_object")
          /\ Last(frames).st = "array_collection"
          /\ ret.t = "ref"
          /\ Len(FrameDes(Len(frames)).obj_cache) > Last(frames).base
          /\ FrameDes(Len(frames)).obj_cache[Last(frames).base + 1] = ret )
        => ( /\ err' = "none"
             /\ ret' = ret
             /\ LET cache == (IF InEsc(frames') THEN amf3_des' ELSE des').obj_cache
                    k == Last(frames).base
                IN  /\ Len(cache) >= k + 2
                    /\ cache[k + 1] = ret
                    /\ cache[k + 2] = ret ) ]_vars

\* C4: Deserializer#deserialize (AMF0), called on a new deserializer with a
\* string holding one complete AMF0 value, takes the string as its source
\* (size = its length), raises nothing, and once it has returned, the cursor
\* is just past the value; for 00 and eight bytes it returns the Float of
\* these bytes.
C4_TopLevelAmf0Decode ==
    (call = "des0_deserialize_rb" /\ src \in ValidAMF0)
        => /\ err = "none"
           /\ des.stream = src
           /\ des.size = Len(src)
           /\ Finished => des.pos = Len(src)
           /\ (Finished /\ src[1] = AMF0_NUMBER_MARKER)
                  => ret = VFloat(Reverse8(SubSeq(src, 2, 9)))

\* the source is a strict prefix of a valid stream of the dialect the entry
\* point that was called decodes
TruncatedSource ==
    \/ call = "des3_deserialize_rb" /\ src \in Truncated(ValidAMF3)
    \/ call \in { "des0_deserialize_rb", "des0_deserialize" }
           /\ src \in Truncated(ValidAMF0)

\* C5: on a strict prefix of a valid stream the deserializer never touches a
\* buffer position at or beyond the size of the source, and the call ends
\* with a RangeError and no value.
C5_TruncatedSourceIsRangeError ==
    TruncatedSource
        => /\ ~mem.buf_oob
           /\ Finished => (err = "RangeError" /\ ret = VNil)

\* C9: while a child value of a container is being decoded (the function
\* building the container is suspended on the stack), the container is in
\* the object cache at index k, the length the cache had when the container
\* was met: a reference to k inside the container is the container itself.
C9_ContainerCachedBeforeChildren ==
    \A i \in 1 .. Len(frames) :
        ContainerFrame(i)
            => /\ Len(FrameDes(i).obj_cache) > frames[i].base
               /\ FrameDes(i).obj_cache[frames[i].base + 1] = VRef(frames[i].obj)

\* an array whose only element is the array itself has been returned
C9_Witness ==
    /\ Finished
    /\ err = "none"
    /\ ret.t = "ref"
    /\ heap[ret.id].k = "array"
    /\ heap[ret.id].items = << ret >>

\* C10: a step inside a deserialize call only appends to the object, string
\* and trait caches of the deserializer at work: every entry keeps its index
\* and its value, new entries take the next indices.
C10_CachesAppendOnly ==
    [][ frames # << >>
        => /\ IsPrefix(des.obj_cache, des'.obj_cache)
           /\ IsPrefix(des.str_cache, des'.str_cache)
           /\ IsPrefix(des.trait_cache, des'.trait_cache)
           /\ (InEsc(frames) /\ InEsc(frames'))
                  => /\ IsPrefix(amf3_des.obj_cache, amf3_des'.obj_cache)
                     /\ IsPrefix(amf3_des.str_cache, amf3_des'.str_cache)
                     /\ IsPrefix(amf3_des.trait_cache, amf3_des'.trait_cache) ]_vars

\* two objects of one class were decoded, the second by trait reference
C10_Witness ==
    /\ Finished
    /\ err = "none"
    /\ Len(des.obj_cache) = 3
    /\ Len(des.str_cache) = 2
    /\ Len(des.trait_cache) = 1

---------------------------------------------------------------------------
(* Properties of the depth counter (SpecDes, SpecAgain) *)

\* C21: whenever no deserialize call is executing on a deserializer, its
\* depth is 0: before the first call, after a call that returned a value and
\* after a call that an exception ended.
C21_IdleDepthZero ==
    (frames = << >> /\ err # "SIGSEGV") => des.depth = 0

\* the frames of the calls that wait for a nested call to return; the frame
\* on top of them is the nested call, which has not started
Suspended(fs, i) == fs[i].k \notin { "des3_deserialize", "des0_deserialize" }

\* the frames above des0_read_amf3 work on the struct it made
AboveEsc(fs, i) == \E j \in 1 .. i - 1 : fs[j].k = "des0_read_amf3"

\* C22: in a decode that goes on without error, every deserialize call that
\* was entered and has not returned counts one in the depth of its struct
\* (depth++ on entry, depth-- on exit), so depth is at least 1 while a value
\* is being read and 0 when the top-level call has returned; the tables are
\* made when a call is entered at depth 0 (the object table then holds only
\* objects made by that call) and only grow while depth is above 0.
C22_DepthCountsCalls ==
    [][ err' = "none"
        => /\ des'.depth = Cardinality({ i \in 1 .. Len(frames') :
                               Suspended(frames', i) /\ ~AboveEsc(frames', i) })
           /\ InEsc(frames')
                  => amf3_des'.depth = Cardinality({ i \in 1 .. Len(frames') :
                               Suspended(frames', i) /\ AboveEsc(frames', i) })
           /\ frames' # << >> => des'.depth >= 1
           /\ frames' = << >> => des'.depth = 0
           /\ (frames = << >> /\ frames' # frames)
                  => \A i \in 1 .. Len(des'.obj_cache) :
                         des'.obj_cache[i].t = "ref" => des'.obj_cache[i].id > Len(heap)
           /\ des.depth > 0
                  => /\ IsPrefix(des.obj_cache, des'.obj_cache)
                     /\ IsPrefix(des.str_cache, des'.str_cache)
                     /\ IsPrefix(des.trait_cache, des'.trait_cache) ]_vars

\* two calls are nested inside the top-level one, in a second decode
C22_Witness ==
    /\ num = 1
    /\ err = "none"
    /\ des.depth = 2
    /\ Len(frames) = 3
    /\ des.obj_cache # << >>

---------------------------------------------------------------------------
(* Properties of the AMF3 escape of the AMF0 deserializer (SpecDes) *)

\* C23: when des0_deserialize meets the AMF3 marker, the struct made for the
\* embedded value starts at the cursor of the AMF0 struct (the byte after the
\* marker) on the same bytes; while the embedded value is decoded the AMF0
\* struct is not touched; when it has been decoded the AMF0 cursor is the
\* position the AMF3 struct stopped at, the AMF0 object cache is as it was and
\* the AMF0 depth is back to what it was before the call that met the marker.
C23_EscapeSharesCursor ==
    [][ err' = "none"
        => /\ (~InEsc(frames) /\ InEsc(frames'))
                  => /\ amf3_des'.pos = des'.pos
                     /\ amf3_des'.stream = des'.stream
                     /\ amf3_des'.size = des'.size
                     /\ des'.stream[des'.pos] = AMF0_AMF3_MARKER
                     /\ des'.depth = des.depth + 1
                     /\ frames # << >> => des'.obj_cache = des.obj_cache
           /\ (InEsc(frames) /\ InEsc(frames'))
                  => /\ des'.pos = des.pos
                     /\ des'.obj_cache = des.obj_cache
                     /\ des'.depth = des.depth
           /\ (InEsc(frames) /\ ~InEsc(frames'))
                  => /\ des'.pos = amf3_des.pos
                     /\ des'.obj_cache = des.obj_cache
                     /\ des'.depth = des.depth - 1 ]_vars

\* the AMF0 array of two embedded AMF3 values has been decoded to its end
C23_Witness ==
    /\ Finished
    /\ err = "none"
    /\ src = << 10, 0, 0, 0, 2, 17, 9, 1, 1, 17, 4, 1 >>
    /\ des.pos = Len(src)
    /\ Len(heap[ret.id].items) = 2
    /\ heap[ret.id].items[2] = VInt(1)

---------------------------------------------------------------------------
(* Properties of the object cache of the serializers (SpecSer) *)

\* the first serialize call of the session has returned
FirstSerialized == num = 1 /\ host.root.t = "ref"

\* the graph holds arrays and hashes whose elements and values are all
\* arrays and hashes of the graph
OnlyContainers ==
    \A id \in { Visit(host.root, host.heap, << >>)[i] :
                    i \in 1 .. Len(Visit(host.root, host.heap, << >>)) } :
        /\ host.heap[id].k \in { "array", "hash" }
        /\ \A i \in 1 .. Len(host.heap[id].items) : host.heap[id].items[i].t = "ref"
        /\ \A i \in 1 .. Len(host.heap[id].props) : host.heap[id].props[i][2].t = "ref"

\* The stream the rule "reference if cached, else cache and write inline"
\* gives for such a graph.  AMF3: array 09, U29 2n+1, 01, elements; hash
\* 0A 0B 01, per pair the key and the value, 01; reference: the marker and
\* U29 2i.  AMF0: array 0A, u32 n, elements; hash 08, u32 n, per pair the
\* key and the value, 00 00 09; reference 07, u16 i.
RefOpen(o, amf3) ==
    IF o.k = "array"
    THEN IF amf3 THEN << AMF3_ARRAY_MARKER, 2 * Len(o.items) + 1, 1 >>
         ELSE << AMF0_STRICT_ARRAY_MARKER, 0, 0, 0, Len(o.items) >>
    ELSE IF amf3 THEN << AMF3_OBJECT_MARKER, 11, 1 >>
         ELSE << AMF0_HASH_MARKER, 0, 0, 0, Len(o.props) >>

RefClose(o, amf3) ==
    IF o.k = "array" THEN << >>
    ELSE IF amf3 THEN << 1 >> ELSE << 0, 0, AMF0_OBJECT_END_MARKER >>

RefKey(k, amf3) == (IF amf3 THEN << 2 * Len(k) + 1 >> ELSE << 0, Len(k) >>) \o k

\* what is written for each child: the key bytes before it, and the child
RefParts(o, amf3) ==
    [i \in 1 .. Len(o.items) |-> << << >>, o.items[i] >>]
        \o [i \in 1 .. Len(o.props) |-> << RefKey(o.props[i][1].s, amf3), o.props[i][2] >>]

RefBack(o, amf3, i) ==
    IF amf3
    THEN << IF o.k = "array" THEN AMF3_ARRAY_MARKER ELSE AMF3_OBJECT_MARKER, 2 * i >>
    ELSE << AMF0_REFERENCE_MARKER, 0, i >>

RECURSIVE RefForm(_, _, _, _)
RECURSIVE RefForms(_, _, _, _)
RefForm(v, hp, amf3, acc) ==
    IF \E i \in 1 .. Len(acc.seen) : acc.seen[i] = v.id
    THEN [acc EXCEPT !.out = @ \o RefBack(hp[v.id], amf3,
                                  (CHOOSE i \in 1 .. Len(acc.seen) : acc.seen[i] = v.id) - 1)]
    ELSE Bind(RefForms(RefParts(hp[v.id], amf3), hp, amf3,
                       [out |-> acc.out \o RefOpen(hp[v.id], amf3),
                        seen |-> Append(acc.seen, v.id)]),
              LAMBDA r : [r EXCEPT !.out = @ \o RefClose(hp[v.id], amf3)])

RefForms(parts, hp, amf3, acc) ==
    IF parts = << >> THEN acc
    ELSE RefForms(Tail(parts), hp, amf3,
                  RefForm(Head(parts)[2], hp, amf3,
                          [acc EXCEPT !.out = @ \o Head(parts)[1]]))

\* C24: serializing a graph with cycles and shared containers returns, in
\* both dialects: the object cache holds every array, hash and object of
\* the graph once, under the index of its first occurrence in the order of
\* writing (it is entered before its contents are written), and for graphs
\* of arrays and hashes alone the stream is the one in which each container
\* is inline at its first occurrence and a reference with that index at
\* every other.  The one way a call ends without its stream is the stream
\* growing past MAX_STREAM_LENGTH.
C24_SharedContainersByReference ==
    FirstSerialized
        => /\ ser.err # "none" => (ser.err = "RangeError" /\ ser.size > MAX_STREAM_LENGTH)
           /\ ser.err = "none"
                  => /\ ser_ret # VNil
                     /\ ser.obj_cache =
                            [i \in 1 .. Len(Visit(host.root, host.heap, << >>)) |->
                                << Visit(host.root, host.heap, << >>)[i], i - 1 >>]
                     /\ OnlyContainers
                            => ser_ret.s = RefForm(host.root, host.heap,
                                                   ser.klass = "AMF3Serializer",
                                                   [out |-> << >>, seen |-> << >>]).out

\* the root array holds itself, the array that holds both, and the hash that
\* holds itself, in AMF0
C24_Witness ==
    /\ FirstSerialized
    /\ ser.klass = "Serializer"
    /\ host.heap[1].items = << VRef(5), VRef(6) >>
    /\ host.root = VRef(1)
    /\ ser_ret = VStr(<< 10, 0, 0, 0, 2, 10, 0, 0, 0, 2, 7, 0, 0, 7, 0, 1,
                         8, 0, 0, 0, 1, 0, 1, 103, 7, 0, 2, 0, 0, 9 >>)

---------------------------------------------------------------------------
(* ser_write on its own: writes of a few lengths, one after the other, on one
   serializer.  A write that raised has ended the serialize call it was
   part of; the next write belongs to a later call on the same object. *)

WriteLens == { 1, 2, 8, 40 }

InitWrite ==
    /\ ser \in { ser0_alloc, ser_alloc }
    /\ ser_ret = VNil
    /\ num = 0
    /\ host = NoHost
    /\ src = << >>
    /\ des = des_alloc
    /\ amf3_des = des_alloc
    /\ heap = << >>
    /\ frames = << >>
    /\ ret = VNil
    /\ err = "none"
    /\ mem = mem_init
    /\ call = "none"

SerWrite ==
    /\ num < MaxWrites
    /\ \E len \in WriteLens :
         ser' = ser_write([ser EXCEPT !.err = "none"], [i \in 1 .. len |-> 0])
    /\ num' = num + 1
    /\ UNCHANGED << ser_ret, desVars, host, src >>

NextWrite == SerWrite

SpecWrite == InitWrite /\ [][NextWrite]_vars

\* C25: after any sequence of writes, one that raised because the stream
\* would pass MAX_STREAM_LENGTH included, the recorded capacity is the
\* capacity allocated, is at most MAX_STREAM_LENGTH and at least len + 1, and
\* no write has copied bytes past the allocation.
C25_SizeIsAllocation ==
    /\ ser.size = ser.alloc
    /\ ser.size <= MAX_STREAM_LENGTH
    /\ ser.size >= Len(ser.stream) + 1
    /\ ~ser.ovf

---------------------------------------------------------------------------
(* Properties of the reads of the source buffer (SpecDes) *)

\* C26: the deserializer never writes to the buffer of its source: at no
\* point of a decode, the reading of a property key as a symbol included,
\* has a byte of the buffer or the byte after it been stored to.
C26_InputNeverWritten == ~mem.buf_wr

---------------------------------------------------------------------------
(* The integer readers on their own: des_read_uint32 and des_read_int on
   arbitrary bytes *)

ReadBytes == { 0, 1, 127, 128, 255 }

InitRead ==
    /\ src \in SeqUpTo(ReadBytes, MaxReadLen)
    /\ ser = ser_alloc
    /\ ser_ret = VNil
    /\ des = [des_alloc EXCEPT !.stream = src, !.size = Len(src)]
    /\ amf3_des = des_alloc
    /\ heap = << >>
    /\ frames = << >>
    /\ ret = VNil
    /\ err = "none"
    /\ mem = mem_init
    /\ num = 0
    /\ host = NoHost
    /\ call = "none"

\* the reader r applied to the struct; ret is the int it returned
Read(r(_), name) ==
    /\ call = "none"
    /\ Bind(r(Ctx(des, heap, mem)), LAMBDA c :
           /\ des' = c.des
           /\ err' = c.err
           /\ mem' = c.mem
           /\ ret' = IF c.err = "none" THEN VInt(c.n) ELSE VNil)
    /\ call' = name
    /\ UNCHANGED << serVars, amf3_des, heap, frames, num, host, src >>

DesReadUint32 == Read(des_read_uint32, "des_read_uint32")

DesReadIntBytes == Read(des_read_int, "des_read_int")

NextRead == DesReadUint32 \/ DesReadIntBytes

SpecRead == InitRead /\ [][NextRead]_vars

\* C27: for four input bytes b0..b3 des_read_uint32 returns the unsigned
\* big-endian value b0 * 2^24 + b1 * 2^16 + b2 * 2^8 + b3: it is not
\* negative, its bits above 24 are b0 and its low 24 bits are b1, b2, b3.
C27_Uint32Unsigned ==
    (call = "des_read_uint32" /\ Len(src) >= 4)
        => /\ err = "none"
           /\ ret.n >= 0
           /\ ret.n \div 16777216 = src[1]
           /\ ret.n % 16777216 = src[2] * 65536 + src[3] * 256 + src[4]

\* the number of bytes des_read_int is to take from b: up to the first of
\* the first three bytes with a clear high bit, else four
IntWidth(b) ==
    IF Len(b) = 0 \/ b[1] < 128 THEN 1
    ELSE IF Len(b) = 1 \/ b[2] < 128 THEN 2
    ELSE IF Len(b) = 2 \/ b[3] < 128 THEN 3
    ELSE 4

\* the value assembled from the bytes: seven bits of each byte, eight of a
\* fourth
IntAssembled(b) ==
    IF IntWidth(b) = 1 THEN b[1] % 128
    ELSE IF IntWidth(b) = 2 THEN (b[1] % 128) * 128 + (b[2] % 128)
    ELSE IF IntWidth(b) = 3
    THEN (b[1] % 128) * 16384 + (b[2] % 128) * 128 + (b[3] % 128)
    ELSE (b[1] % 128) * 4194304 + (b[2] % 128) * 32768 + (b[3] % 128) * 256 + b[4]

\* C28: on any bytes des_read_int takes between 1 and 4 bytes (it stops
\* after the first of the first three bytes with a clear high bit, and after
\* the fourth byte whatever it is), raises only when the bytes end before
\* that, and returns the assembled value, less 2^29 when its bit 28 is set:
\* a value in -2^28 .. 2^28 - 1.
C28_ReadIntWidthAndRange ==
    call = "des_read_int"
        => /\ (err # "none") <=> (Len(src) < IntWidth(src))
           /\ err # "none" => err = "RangeError"
           /\ err = "none"
                  => /\ des.pos = IntWidth(src)
                     /\ des.pos \in 1 .. 4
                     /\ ret.n = IF IntAssembled(src) >= 268435456
                                THEN IntAssembled(src) - 536870912
                                ELSE IntAssembled(src)
                     /\ ret.n >= -268435456
                     /\ ret.n <= 268435455

\* four bytes with the high bit set gave a negative value and a fifth byte
\* was left unread
C28_Witness ==
    /\ call = "des_read_int"
    /\ src = << 255, 255, 255, 255, 1 >>
    /\ des.pos = 4
    /\ ret = VInt(-1)

---------------------------------------------------------------------------
(* Properties of the string references of the AMF3 serializer (SpecRT) *)

\* the array given to the serializer holds strings only
OnlyStrings == \A i \in 1 .. Len(HostItems) : HostItems[i].t = "str"

\* C29: the AMF3 serializer writes a string as a reference only to a cached
\* string with the same bytes over its whole length, zero bytes included:
\* the deserializer, which resolves each reference to the string written
\* inline under that index, reads back from the stream of an array of
\* strings the same strings, byte for byte.
C29_ReferenceOnlyToEqualString ==
    (RoundTripDone /\ OnlyStrings)
        => /\ err = "none"
           /\ ret.t = "ref"
           /\ heap[ret.id].items = HostItems


---------------------------------------------------------------------------
(* The public methods of the serializers (serializer.c:862-878): serialize,
   write_array, write_object and write_hash called one after the other on
   one Serializer or AMF3Serializer *)

\* the arrays and the records of the session
SessionArrays == { VRef(1), VRef(5) }
SessionRecords == { VRef(2), VRef(3), VRef(4), VRef(6) }

\* RocketAMF::Ext::Serializer#write_array(ary); the method returns self
SerializerWriteArray ==
    /\ ser.klass = "Serializer"
    /\ ser.err = "none"
    /\ num < MaxCalls
    /\ \E ub \in UBOutcomes, ary \in SessionArrays :
         ser' = ser0_write_array([ser EXCEPT !.ub = ub], host.heap, ary)
    /\ num' = num + 1
    /\ UNCHANGED << ser_ret, desVars, host, src >>

\* RocketAMF::Ext::Serializer#write_object(obj) and #write_hash(obj), both
\* ser0_write_object with props = nil; the method returns self
SerializerWriteObject ==
    /\ ser.klass = "Serializer"
    /\ ser.err = "none"
    /\ num < MaxCalls
    /\ \E ub \in UBOutcomes, obj \in SessionRecords :
         ser' = ser0_write_object0([ser EXCEPT !.ub = ub], host.heap, obj, VNil)
    /\ num' = num + 1
    /\ UNCHANGED << ser_ret, desVars, host, src >>

\* RocketAMF::Ext::AMF3Serializer#write_array(ary); the method returns self
AMF3SerializerWriteArray ==
    /\ ser.klass = "AMF3Serializer"
    /\ ser.err = "none"
    /\ num < MaxCalls
    /\ \E ub \in UBOutcomes, ary \in SessionArrays :
         ser' = ser3_write_array([ser EXCEPT !.ub = ub], host.heap, ary)
    /\ num' = num + 1
    /\ UNCHANGED << ser_ret, desVars, host, src >>

\* RocketAMF::Ext::AMF3Serializer#write_object(obj), ser3_write_object with
\* props = nil and traits = nil; the method returns self
AMF3SerializerWriteObject ==
    /\ ser.klass = "AMF3Serializer"
    /\ ser.err = "none"
    /\ num < MaxCalls
    /\ \E ub \in UBOutcomes, obj \in SessionRecords :
         ser' = ser3_write_object0([ser EXCEPT !.ub = ub], host.heap, obj, VNil, VNil)
    /\ num' = num + 1
    /\ UNCHANGED << ser_ret, desVars, host, src >>

NextPublic ==
    \/ AMF3SerializerSerialize
    \/ SerializerSerialize
    \/ SerializerWriteArray
    \/ SerializerWriteObject
    \/ AMF3SerializerWriteArray
    \/ AMF3SerializerWriteObject

SpecPublic == InitSer /\ [][NextPublic]_vars

\* C30: a call of serialize, write_array, write_object or write_hash on a
\* serializer at depth -1 leaves the stream and the three caches with their
\* next indices as they were.
C30_FinalizedAcceptsNothing ==
    [][ ser.depth = -1
            => /\ ser'.stream = ser.stream
               /\ ser'.obj_cache = ser.obj_cache
               /\ ser'.obj_index = ser.obj_index
               /\ ser'.str_cache = ser.str_cache
               /\ ser'.str_index = ser.str_index
               /\ ser'.trait_cache = ser.trait_cache
               /\ ser'.trait_index = ser.trait_index ]_vars


---------------------------------------------------------------------------
(* The AMF3 round trip of objects that write themselves with traits of
   their own: AMF3Serializer#serialize of an array of them, then
   AMF3Deserializer#deserialize of the string it returned *)

\* the traits hash given to write_object
\* (serializer.c:617-620: :class_name, :members, :dynamic, :externalizable)
TraitsHash(class_name, members, dynamic, externalizable) ==
    [ t |-> "hash", class_name |-> class_name, members |-> members,
      dynamic |-> dynamic, externalizable |-> externalizable ]

\* The objects given to the serializer: 1 the root array; 2, 3 and 4 objects
\* whose encode_amf names the class A, with no sealed member, with the
\* sealed member x, and with the sealed member x and dynamic properties; 5 an
\* object of class B with the sealed member x; 6 an externalizable object
TraitsHeap(items) ==
    << Obj("array", << >>, items, << >>, << >>),
       Obj("encodable", << >>, << >>, << << VSym(<< 120 >>), VInt(1) >> >>,
           TraitsHash(VStr(<< 65 >>), << >>, FALSE, FALSE)),
       Obj("encodable", << >>, << >>, << << VSym(<< 120 >>), VInt(2) >> >>,
           TraitsHash(VStr(<< 65 >>), << VStr(<< 120 >>) >>, FALSE, FALSE)),
       Obj("encodable", << >>, << >>,
           << << VSym(<< 120 >>), VInt(3) >>, << VSym(<< 121 >>), VInt(4) >> >>,
           TraitsHash(VStr(<< 65 >>), << VStr(<< 120 >>) >>, TRUE, FALSE)),
       Obj("encodable", << >>, << >>, << << VSym(<< 120 >>), VInt(5) >> >>,
           TraitsHash(VStr(<< 66 >>), << VStr(<< 120 >>) >>, FALSE, FALSE)),
       Obj("encodable", << >>, << >>, << >>,
           TraitsHash(VStr(<< 67 >>), << >>, FALSE, TRUE)) >>

TraitsElements == { VRef(2), VRef(3), VRef(4), VRef(5), VRef(6) }

TraitsGraphs ==
    { [root |-> VRef(1), heap |-> TraitsHeap(items), opts |-> VNil] :
          items \in SeqUpTo(TraitsElements, MaxItems) }

InitTraits ==
    /\ host \in TraitsGraphs
    /\ src = << >>
    /\ ser = ser_alloc
    /\ ser_ret = VNil
    /\ des = des_alloc
    /\ amf3_des = des_alloc
    /\ heap = << >>
    /\ frames = << >>
    /\ ret = VNil
    /\ err = "none"
    /\ mem = mem_init
    /\ num = 0
    /\ call = "none"

SpecTraits == InitTraits /\ [][NextRT]_vars

\* the traits element i of the array was written with
ItemTraits(i) == host.heap[HostItems[i].id].data

\* C31: once the stream written for an array of objects is read back, the
\* traits the deserializer holds at the index the serializer has for the
\* class name of each element have the sealed members and the dynamic and
\* externalizable flags that element was written with.
C31_TraitReferenceMatches ==
    RoundTripDone
        => \A i \in 1 .. Len(HostItems) :
               Bind(st_lookup(ser.trait_cache, CStr(ItemTraits(i).class_name.s)),
                    LAMBDA index :
                   /\ index >= 0
                   /\ index < Len(des.trait_cache)
                   /\ des.trait_cache[index + 1].members = ItemTraits(i).members
                   /\ des.trait_cache[index + 1].dynamic = ItemTraits(i).dynamic
                   /\ des.trait_cache[index + 1].externalizable
                          = ItemTraits(i).externalizable)


---------------------------------------------------------------------------
(* Values of every kind given to serialize, by themselves and as the
   elements of an array, on a Serializer or an AMF3Serializer *)

KindGraphs ==
    HostGraphs
    \cup { [root |-> v, heap |-> HostHeap(<< >>), opts |-> VNil] : v \in HostElements }

InitKinds ==
    /\ host \in KindGraphs
    /\ ser \in { ser0_alloc, ser_alloc }
    /\ ser_ret = VNil
    /\ num = 0
    /\ src = << >>
    /\ des = des_alloc
    /\ amf3_des = des_alloc
    /\ heap = << >>
    /\ frames = << >>
    /\ ret = VNil
    /\ err = "none"
    /\ mem = mem_init
    /\ call = "none"

SpecKinds == InitKinds /\ [][NextSer]_vars

\* the bytes before the first element of an array: the marker and the 32-bit
\* length in AMF0, the marker, the one-byte header and the empty key in AMF3
ArrayPrefixLen == IF ser.klass = "Serializer" THEN 5 ELSE 3

\* C32: a serialize call on a serializer at depth 0 that raises nothing
\* makes the stream at least one byte longer, and for an array at least one
\* byte longer for each element besides the bytes before the first element.
C32_EveryValueEncoded ==
    [][ (ser.depth = 0 /\ num = 0 /\ num' = 1 /\ ser'.err = "none")
            => /\ Len(ser'.stream) >= Len(ser.stream) + 1
               /\ host.root = VRef(1)
                      => Len(ser'.stream) >= ArrayPrefixLen + Len(HostItems) ]_vars


---------------------------------------------------------------------------
(* Properties of the cursor (SpecDes) *)

\* the bytes the running call has not used: those after the position of its
\* struct, and the type byte the caller of des0_deserialize read for it
Unread ==
    DesInUse.size - DesInUse.pos
        + (IF frames # << >> /\ Last(frames).k = "des0_deserialize" THEN 1 ELSE 0)

\* a measure of the work left: it counts the unused bytes, the functions on
\* the stack, and a call that has not started its read
Rank ==
    3 * Unread + Len(frames)
        - 2 * (IF frames # << >> /\ ~Suspended(frames, Len(frames)) THEN 1 ELSE 0)

---------------------------------------------------------------------------
(* The two case conversions on their own: camelcase_str of the serializer
   and snakecase_str of the deserializer applied to a key *)

\* char snake_str[strlen(str)*2]
snakecase_buffer(s) == 2 * Len(CStr(s))

\* the bytes snakecase_str stores: snake_str[len++] for each character of
\* the result, then snake_str[len] = 0
snakecase_stores(s) == Len(snakecase_chars(CStr(s))) + 1

\* keys whose camelCase form has 7, 8 and 9 characters
LongKeys ==
    { << 97, 98, 99, 100, 101, 102, 103 >>,
      << 97, 98, 99, 100, 101, 102, 103, 104 >>,
      << 97, 95, 98, 99, 100, 101, 102, 103, 104, 105 >> }

InitCase ==
    /\ host \in { [root |-> VStr(key), heap |-> << >>, opts |-> SerializeOpts(TRUE)] :
                      key \in SeqUpTo(KeyChars, MaxKeyLen) \cup LongKeys }
    /\ ser = ser_alloc
    /\ ser_ret = VNil
    /\ num = 0
    /\ src = << >>
    /\ des = des_alloc
    /\ amf3_des = des_alloc
    /\ heap = << >>
    /\ frames = << >>
    /\ ret = VNil
    /\ err = "none"
    /\ mem = mem_init
    /\ call = "none"

\* key = snakecase_str(key); num is the number of bytes stored past the end
\* of snake_str, which is undefined behaviour: the process is killed, or
\* the bytes after the array are overwritten and the string is returned
SnakecaseStr ==
    /\ ret = VNil
    /\ err = "none"
    /\ num' = Max(0, snakecase_stores(host.root.s) - snakecase_buffer(host.root.s))
    /\ \E ub \in UBOutcomes :
         IF num' > 0 /\ ub = "crash"
         THEN err' = "SIGSEGV" /\ ret' = ret
         ELSE err' = err /\ ret' = VStr(snakecase_str(host.root.s))
    /\ UNCHANGED << serVars, des, amf3_des, heap, frames, mem, host, src, call >>

NextCase == CamelcaseStr \/ SnakecaseStr

SpecCase == InitCase /\ [][NextCase]_vars

\* C34: camelcase_str and snakecase_str store no byte outside the arrays
\* they build their results in.
C34_HelpersStayInBuffers == ~ser.ovf /\ num = 0

====
